---- MODULE Spec2Model ----
(***************************************************************************)
(* CampusIQ authorization core: tenant middleware, RBAC middleware, the    *)
(* schedule routes, the user service and the audit service, modelled as    *)
(* state machines over the Flask request context (g), the response and     *)
(* the database tables.                                                    *)
(***************************************************************************)
EXTENDS Integers, Sequences, FiniteSets, TLC

\* ---------------------------------------------------------------------
\* Values
\* ---------------------------------------------------------------------

\* Python's None, and a dictionary key / argument that is not there at all
None == "<None>"
Absent == "<absent>"

\* Python truthiness of an optional string
Truthy(v) == v \notin {None, Absent, ""}

CollegeIds == {"c1", "c2"}

\* roles of the roles table, one role outside it, and a missing role claim
RoleCodes == {"SUPER_ADMIN", "COLLEGE_ADMIN", "FACULTY", "STAFF", "STUDENT"}
UnknownRole == "GUEST"
AllRoles == RoleCodes \cup {UnknownRole}

\* ---------------------------------------------------------------------
\* Exceptions (utils/exceptions.py) and the error handlers (app/__init__.py)
\* ---------------------------------------------------------------------

NoException == [cls |-> "<none>", code |-> "<none>", status_code |-> 0, message |-> "<none>"]

UnauthorizedException(message) ==
    [cls |-> "UnauthorizedException", code |-> "UNAUTHORIZED", status_code |-> 401, message |-> message]

ForbiddenException(message) ==
    [cls |-> "ForbiddenException", code |-> "FORBIDDEN", status_code |-> 403, message |-> message]

NotFoundException(message) ==
    [cls |-> "NotFoundException", code |-> "NOT_FOUND", status_code |-> 404, message |-> message]

ValidationException(message) ==
    [cls |-> "ValidationException", code |-> "VALIDATION_ERROR", status_code |-> 400, message |-> message]

TenantAccessDefaultMessage == "Access to this college data is not permitted"

TenantAccessException(message) ==
    [cls |-> "TenantAccessException", code |-> "TENANT_ACCESS_DENIED", status_code |-> 403, message |-> message]

RoleEscalationException(message) ==
    [cls |-> "RoleEscalationException", code |-> "ROLE_ESCALATION", status_code |-> 403, message |-> message]

TokenExpiredException(message) ==
    [cls |-> "TokenExpiredException", code |-> "TOKEN_EXPIRED", status_code |-> 401,
     message |-> message]

InvalidTokenException(message) ==
    [cls |-> "InvalidTokenException", code |-> "INVALID_TOKEN", status_code |-> 401,
     message |-> message]

ScheduleConflictException(message) ==
    [cls |-> "ScheduleConflictException", code |-> "SCHEDULE_CONFLICT", status_code |-> 409, message |-> message]

\* an exception that is not a CampusIQException (ValueError, AttributeError)
PythonError(cls) ==
    [cls |-> cls, code |-> "<none>", status_code |-> 500, message |-> cls]

NoResponse == [status |-> 0, code |-> "<none>", message |-> "<none>"]

OkResponse(status) == [status |-> status, code |-> "OK", message |-> "<none>"]

\* Flask picks the handler registered for the most specific class
handle_exception(e) ==
    CASE e.cls = "TenantAccessException" ->
            [status |-> 403, code |-> "TENANT_ACCESS_DENIED",
             message |-> "You do not have access to this college's data"]
      [] e.cls = "UnauthorizedException" ->
            [status |-> 401, code |-> "UNAUTHORIZED", message |-> e.message]
      [] e.cls = "ForbiddenException" ->
            [status |-> 403, code |-> "FORBIDDEN", message |-> e.message]
      [] e.cls = "NotFoundException" ->
            [status |-> 404, code |-> "NOT_FOUND", message |-> e.message]
      [] e.cls = "ValidationException" ->
            [status |-> 400, code |-> "VALIDATION_ERROR", message |-> e.message]
      [] e.cls \in {"RoleEscalationException", "ScheduleConflictException",
                    "TokenExpiredException", "InvalidTokenException"} ->
            [status |-> e.status_code, code |-> e.code, message |-> e.message]
      [] OTHER ->
            [status |-> 500, code |-> "INTERNAL_ERROR",
             message |-> "An internal server error occurred"]

\* ---------------------------------------------------------------------
\* Request context
\* ---------------------------------------------------------------------

NoUser ==
    [present |-> FALSE, user_id |-> None, role |-> None, college_id |-> None, email |-> None]

\* the principal of a token with no email claim: payload.get('email') is None
User(uid, role, cid) ==
    [present |-> TRUE, user_id |-> uid, role |-> role, college_id |-> cid, email |-> None]

NoTenantContext ==
    [present |-> FALSE, college_id |-> None, is_super_admin |-> FALSE, can_write |-> FALSE]

NoRequest == [header |-> None, path |-> Absent, query |-> None, body |-> Absent]

\* ---------------------------------------------------------------------
\* middleware/tenant_middleware.py
\* ---------------------------------------------------------------------

\* header X-Tenant-ID > view_args['college_id'] > ?college_id= > JSON body
_get_requested_college_id(req) ==
    IF Truthy(req.header) THEN req.header
    ELSE IF req.path # Absent THEN req.path
    ELSE IF Truthy(req.query) THEN req.query
    ELSE IF req.body # Absent THEN req.body
    ELSE None

\* require_tenant_access without the comparison of the requested college with
\* the user's own
require_tenant_access_no_mismatch_check(user, req) ==
    LET requested_college_id == _get_requested_college_id(req) IN
    IF ~user.present THEN
        [ok |-> FALSE, exc |-> ForbiddenException("Authentication required"),
         ctx |-> NoTenantContext]
    ELSE IF user.role = "SUPER_ADMIN" THEN
        [ok |-> TRUE, exc |-> NoException,
         ctx |-> [present |-> TRUE, college_id |-> requested_college_id,
                  is_super_admin |-> TRUE, can_write |-> FALSE]]
    ELSE IF ~Truthy(user.college_id) THEN
        [ok |-> FALSE,
         exc |-> TenantAccessException("Account not associated with any college"),
         ctx |-> NoTenantContext]
    ELSE
        [ok |-> TRUE, exc |-> NoException,
         ctx |-> [present |-> TRUE, college_id |-> user.college_id,
                  is_super_admin |-> FALSE, can_write |-> TRUE]]

\* require_tenant_access storing the requested college, not the user's own, in
\* the tenant context of a non-super-admin
require_tenant_access_ctx_from_request(user, req) ==
    LET requested_college_id == _get_requested_college_id(req) IN
    IF ~user.present THEN
        [ok |-> FALSE, exc |-> ForbiddenException("Authentication required"),
         ctx |-> NoTenantContext]
    ELSE IF user.role = "SUPER_ADMIN" THEN
        [ok |-> TRUE, exc |-> NoException,
         ctx |-> [present |-> TRUE, college_id |-> requested_college_id,
                  is_super_admin |-> TRUE, can_write |-> FALSE]]
    ELSE IF ~Truthy(user.college_id) THEN
        [ok |-> FALSE,
         exc |-> TenantAccessException("Account not associated with any college"),
         ctx |-> NoTenantContext]
    ELSE IF Truthy(requested_college_id) /\ requested_college_id # user.college_id THEN
        [ok |-> FALSE, exc |-> TenantAccessException(TenantAccessDefaultMessage),
         ctx |-> NoTenantContext]
    ELSE
        [ok |-> TRUE, exc |-> NoException,
         ctx |-> [present |-> TRUE, college_id |-> requested_college_id,
                  is_super_admin |-> FALSE, can_write |-> TRUE]]

\* The decorator up to the call of the wrapped function: either an
\* exception (ok = FALSE) or the tenant context stored in g (ok = TRUE).
require_tenant_access(user, req) ==
    LET requested_college_id == _get_requested_college_id(req) IN
    IF ~user.present THEN
        [ok |-> FALSE, exc |-> ForbiddenException("Authentication required"),
         ctx |-> NoTenantContext]
    ELSE IF user.role = "SUPER_ADMIN" THEN
        [ok |-> TRUE, exc |-> NoException,
         ctx |-> [present |-> TRUE, college_id |-> requested_college_id,
                  is_super_admin |-> TRUE, can_write |-> FALSE]]
    ELSE IF ~Truthy(user.college_id) THEN
        [ok |-> FALSE,
         exc |-> TenantAccessException("Account not associated with any college"),
         ctx |-> NoTenantContext]
    ELSE IF Truthy(requested_college_id) /\ requested_college_id # user.college_id THEN
        [ok |-> FALSE, exc |-> TenantAccessException(TenantAccessDefaultMessage),
         ctx |-> NoTenantContext]
    ELSE
        [ok |-> TRUE, exc |-> NoException,
         ctx |-> [present |-> TRUE, college_id |-> user.college_id,
                  is_super_admin |-> FALSE, can_write |-> TRUE]]

get_tenant_college_id(ctx, user) ==
    IF ctx.present THEN ctx.college_id
    ELSE IF user.present THEN user.college_id
    ELSE None

\* TenantIsolatedQuery._get_base_query: the query it builds, as the tenant
\* predicate college_id = tenant_filter, or NoFilter when it adds none.
\* has_college_id: the model class has a college_id column (is tenant-scoped).
NoFilter == "<no tenant filter>"

NotQueried == [ran |-> FALSE, tenant_scoped |-> FALSE, tenant_filter |-> NoFilter]

_get_base_query(has_college_id, ctx, user) ==
    LET college_id == get_tenant_college_id(ctx, user) IN
    [ran |-> TRUE, tenant_scoped |-> has_college_id,
     tenant_filter |-> IF has_college_id /\ Truthy(college_id) THEN college_id
                       ELSE NoFilter]


\* ---------------------------------------------------------------------
\* State
\* ---------------------------------------------------------------------

VARIABLES
    phase,            \* "idle": no request in progress; "responded": one was served
    route,            \* the view the request was dispatched to
    request,          \* the tenant hints of the request being served
    current_user,     \* g.current_user
    tenant_context,   \* g.tenant_context
    raised,           \* the exception that ended the request, if any
    response,         \* what the client receives
    wrapped_ran,      \* the wrapped view function was executed
    base_query,       \* the query a TenantIsolatedQuery of the view built and ran
    svc_calls,        \* the ScheduleService calls of the request, with their college_id
    returned,         \* what the function or service method called last returned
    schedules,        \* table schedules: rows in insertion order
    users,            \* table users: user_id -> row
    audit_logs,       \* table audit_logs: rows in insertion order
    now,              \* the clock, in seconds since the process started
    _blocked_tokens,  \* SecurityMiddleware._blocked_tokens: fingerprints
    refresh_tokens,   \* table refresh_tokens: rows
    issued,           \* the tokens the service has handed out, with what they were issued for
    colleges,         \* table colleges: college_id -> status
    _suspicious_ips,  \* SecurityMiddleware._suspicious_ips: origin -> its entry, a dict object
    ip_entries,       \* the entry dicts allocated so far: count and activities of each
    workers,          \* the request threads: where each stands in record_suspicious_activity
    activity_calls    \* record_suspicious_activity calls made so far, per origin

ctxvars == <<phase, route, request, current_user, tenant_context, raised, response,
             wrapped_ran, base_query, svc_calls, returned>>

dbvars == <<schedules, users, audit_logs>>

\* the clock and the token state of the process
authvars == <<now, _blocked_tokens, refresh_tokens, issued>>

\* table colleges and the suspicious-activity counters of the process
procvars == <<colleges, _suspicious_ips, ip_entries, workers, activity_calls>>

vars == <<ctxvars, dbvars, authvars, procvars>>

\* no function has returned in this request yet
NoReturn == [fn |-> "<none>", args |-> <<>>, value |-> None]

Returned(fn, args, value) == [fn |-> fn, args |-> args, value |-> value]

\* ---------------------------------------------------------------------
\* The database a deployment starts from: the roles of the schema and the
\* colleges and users of the integration fixture
\* ---------------------------------------------------------------------

\* roles.hierarchy_level by role_code
RolesTable ==
    "SUPER_ADMIN" :> 100 @@ "COLLEGE_ADMIN" :> 50 @@ "FACULTY" :> 10 @@ "STAFF" :> 5
    @@ "STUDENT" :> 1

UserRow(email, role_code, college_id, status) ==
    [email |-> email, role_code |-> role_code, college_id |-> college_id,
     status |-> status, is_deleted |-> FALSE]

\* c1 and c2 are the fixture's college-1 and college-2
SeedUsers ==
    "user-super-admin" :> UserRow("admin@campusiq.com", "SUPER_ADMIN", None, "ACTIVE")
    @@ "user-college-admin-1" :> UserRow("admin@test1.edu", "COLLEGE_ADMIN", "c1", "ACTIVE")
    @@ "user-college-admin-2" :> UserRow("admin@test2.edu", "COLLEGE_ADMIN", "c2", "ACTIVE")
    @@ "user-faculty-1" :> UserRow("faculty@test1.edu", "FACULTY", "c1", "ACTIVE")
    @@ "user-faculty-2" :> UserRow("faculty@test2.edu", "FACULTY", "c2", "ACTIVE")

\* tables colleges and email_domain_mapping of the fixture: status by college,
\* college by the domain of an email
CollegeStatus == "c1" :> "APPROVED" @@ "c2" :> "APPROVED"

\* ---------------------------------------------------------------------
\* Inputs
\* ---------------------------------------------------------------------

UserIds == {"u1", "u2"}

\* the tenant claim of a token: a college, the empty-string sentinel, or none
TenantClaims == CollegeIds \cup {"", None}

\* g.current_user as require_auth leaves it
Principals == {User("u1", r, c) : r \in AllRoles \cup {None}, c \in TenantClaims}

\* the four places a request names a college: the X-Tenant-ID header, the path
\* parameter, the query string and the JSON body
Requests ==
    [header : CollegeIds \cup {None}, path : CollegeIds \cup {Absent},
     query : CollegeIds \cup {None}, body : CollegeIds \cup {Absent, None, ""}]

\* ---------------------------------------------------------------------
\* A fresh request context: Flask creates g per request and drops it after
\* ---------------------------------------------------------------------

FreshContext ==
    /\ route = "<none>"
    /\ request = NoRequest
    /\ current_user = NoUser
    /\ tenant_context = NoTenantContext
    /\ raised = NoException
    /\ response = NoResponse
    /\ wrapped_ran = FALSE
    /\ base_query = NotQueried
    /\ svc_calls = {}
    /\ returned = NoReturn

\* ---------------------------------------------------------------------
\* middleware/security_middleware.py: the suspicious-activity counters, which the
\* threads serving requests share without a lock
\* ---------------------------------------------------------------------

\* the threads of the server that serve requests at the same time
Workers == {"w1", "w2"}

\* the origin the requests come from
Origins == {"203.0.113.7"}

ActivityTypes == {"BLOCKED_TOKEN_USAGE", "MALFORMED_TOKEN"}

\* record_suspicious_activity calls made per origin
MaxCalls == 3

\* ip not in cls._suspicious_ips
NoEntry == 0

\* {'count': 0, 'activities': [], 'first_seen': ...}
NewEntry == [count |-> 0, activities |-> <<>>]

\* a thread that is not inside record_suspicious_activity
IdleWorker == [pc |-> "idle", ip |-> "<none>", activity_type |-> "<none>", entry |-> NoEntry, count |-> 0]

Init ==
    /\ phase = "idle"
    /\ FreshContext
    /\ schedules = <<>>
    /\ users = SeedUsers
    /\ audit_logs = <<>>
    /\ now = 0
    /\ _blocked_tokens = {}
    /\ refresh_tokens = {}
    /\ issued = {}
    /\ colleges = CollegeStatus
    /\ _suspicious_ips = [ip \in Origins |-> NoEntry]
    /\ ip_entries = <<>>
    /\ workers = [w \in Workers |-> IdleWorker]
    /\ activity_calls = [ip \in Origins |-> 0]

\* A request is served only in a fresh context; the guard stands before the
\* choice of the inputs.
Idle == phase = "idle"

TeardownRequest ==
    /\ phase = "responded"
    /\ phase' = "idle"
    /\ route' = "<none>"
    /\ request' = NoRequest
    /\ current_user' = NoUser
    /\ tenant_context' = NoTenantContext
    /\ raised' = NoException
    /\ response' = NoResponse
    /\ wrapped_ran' = FALSE
    /\ base_query' = NotQueried
    /\ svc_calls' = {}
    /\ returned' = NoReturn
    /\ UNCHANGED <<dbvars, authvars, procvars>>

\* ---------------------------------------------------------------------
\* Views behind require_tenant_access
\* ---------------------------------------------------------------------

\* A view function f decorated with @require_tenant_access; f returns 200.
TenantGuardedView(user, req) ==
    LET r == require_tenant_access(user, req) IN
    /\ phase' = "responded"
    /\ route' = "tenant_guarded_view"
    /\ request' = req
    /\ current_user' = user
    /\ tenant_context' = r.ctx
    /\ raised' = r.exc
    /\ response' = IF r.ok THEN OkResponse(200) ELSE handle_exception(r.exc)
    /\ wrapped_ran' = r.ok
    /\ base_query' = NotQueried
    /\ svc_calls' = {}
    /\ returned' = NoReturn
    /\ UNCHANGED <<dbvars, authvars, procvars>>

\* A view that runs TenantIsolatedQuery(model_class).all(), either behind
\* @require_tenant_access or with no tenant decorator (get_tenant_college_id then
\* falls back to g.current_user).
IsolatedQueryView(user, req, decorated, has_college_id) ==
    LET r == IF decorated THEN require_tenant_access(user, req)
             ELSE [ok |-> TRUE, exc |-> NoException, ctx |-> NoTenantContext] IN
    /\ phase' = "responded"
    /\ route' = IF decorated THEN "guarded_query_view" ELSE "unguarded_query_view"
    /\ request' = req
    /\ current_user' = user
    /\ tenant_context' = r.ctx
    /\ raised' = r.exc
    /\ response' = IF r.ok THEN OkResponse(200) ELSE handle_exception(r.exc)
    /\ wrapped_ran' = r.ok
    /\ base_query' = IF r.ok THEN _get_base_query(has_college_id, r.ctx, user)
                     ELSE NotQueried
    /\ svc_calls' = {}
    /\ returned' = NoReturn
    /\ UNCHANGED <<dbvars, authvars, procvars>>

TenantGuardedRequest ==
    /\ Idle
    /\ \E user \in Principals \cup {NoUser}, req \in Requests :
          TenantGuardedView(user, req)

IsolatedQueryRequest ==
    /\ Idle
    /\ \E user \in Principals \cup {NoUser}, req \in Requests,
          decorated \in BOOLEAN, has_college_id \in BOOLEAN :
          IsolatedQueryView(user, req, decorated, has_college_id)

NextTenant ==
    \/ TenantGuardedRequest
    \/ IsolatedQueryRequest
    \/ TeardownRequest

SpecTenant == Init /\ [][NextTenant]_vars

\* ---------------------------------------------------------------------
\* middleware/rbac_middleware.py: require_roles
\* ---------------------------------------------------------------------

\* The exception require_roles(allowed_roles) raises for g.current_user = user,
\* or NoException when it calls the wrapped function.
require_roles(user, allowed_roles) ==
    IF ~user.present THEN ForbiddenException("Authentication required")
    ELSE IF user.role # "SUPER_ADMIN" /\ user.role \notin allowed_roles
         THEN ForbiddenException("Access denied. Required role")
    ELSE NoException

\* ---------------------------------------------------------------------
\* services/schedule_service.py over table schedules
\* ---------------------------------------------------------------------

MaxSchedules == 2

ClassCodes == {"TY-A"}

\* uuid.UUID(str(x)) succeeds: x is the text of a UUID
ValidUUID(x) == x \in CollegeIds \cup UserIds

\* schedule ids are the row positions; 0 stands for a path segment that is no UUID
ScheduleIdInputs == 0 .. MaxSchedules

ScheduleRow(cid, class_code) ==
    [college_id |-> cid, class_code |-> class_code, is_deleted |-> FALSE]

\* SELECT ... WHERE schedule_id = :sid AND college_id = :cid AND is_deleted = 0
get_schedule_by_id(rows, schedule_id, college_id) ==
    /\ schedule_id \in DOMAIN rows
    /\ rows[schedule_id].college_id = college_id
    /\ ~rows[schedule_id].is_deleted

\* the modelled entries all lie in one day and hour, so two entries of a college
\* overlap in time and conflict when they are for the same class
check_conflicts(rows, college_id, class_code, exclude_id) ==
    \E i \in DOMAIN rows :
        /\ rows[i].college_id = college_id
        /\ ~rows[i].is_deleted
        /\ i # exclude_id
        /\ rows[i].class_code = class_code

create_schedule(rows, college_id, class_code) ==
    Append(rows, ScheduleRow(college_id, class_code))

\* UPDATE schedules SET is_deleted = 1 WHERE schedule_id = :sid AND college_id = :cid
delete_schedule(rows, schedule_id, college_id) ==
    [i \in DOMAIN rows |->
        IF i = schedule_id /\ rows[i].college_id = college_id
        THEN [rows[i] EXCEPT !.is_deleted = TRUE]
        ELSE rows[i]]

\* import_from_csv of a file with n_rows valid data rows of one class
RECURSIVE import_rows(_, _, _, _)
import_rows(rows, college_id, class_code, n_rows) ==
    IF n_rows = 0 THEN rows
    ELSE import_rows(Append(rows, ScheduleRow(college_id, class_code)),
                     college_id, class_code, n_rows - 1)

Call(op, college_id) == [op |-> op, college_id |-> college_id]

MutatingOps == {"create_schedule", "update_schedule", "delete_schedule", "import_from_csv"}

\* ---------------------------------------------------------------------
\* routes/schedules.py
\* ---------------------------------------------------------------------

\* roles of the tokens presented to the schedule routes
SchedulePrincipals ==
    {User("u1", r, c) : r \in {"SUPER_ADMIN", "COLLEGE_ADMIN", "FACULTY", UnknownRole},
                        c \in CollegeIds \cup {None}}

\* the schedule routes have no college_id path parameter
ScheduleRequests ==
    [header : CollegeIds \cup {None}, path : {Absent}, query : {None, "c2"},
     body : CollegeIds \cup {Absent, None}]

\* @require_auth [@require_roles(allowed_roles)] @require_tenant_access, in this
\* order; with_roles = FALSE for a route that has no require_roles decorator.
\* require_auth stands for the presence of a verified token.
RouteGuards(user, req, with_roles, allowed_roles) ==
    IF ~user.present THEN
        [ok |-> FALSE, exc |-> UnauthorizedException("Authentication token is required"),
         ctx |-> NoTenantContext]
    ELSE IF with_roles /\ require_roles(user, allowed_roles) # NoException THEN
        [ok |-> FALSE, exc |-> require_roles(user, allowed_roles), ctx |-> NoTenantContext]
    ELSE require_tenant_access(user, req)

\* the state a schedule route leaves behind
Served(rt, user, req, g, exc, status, calls, rows) ==
    /\ phase' = "responded"
    /\ route' = rt
    /\ request' = req
    /\ current_user' = user
    /\ tenant_context' = g.ctx
    /\ raised' = exc
    /\ response' = IF exc = NoException THEN OkResponse(status) ELSE handle_exception(exc)
    /\ wrapped_ran' = g.ok
    /\ base_query' = NotQueried
    /\ svc_calls' = calls
    /\ returned' = NoReturn
    /\ schedules' = rows
    /\ UNCHANGED <<users, audit_logs, authvars, procvars>>

\* GET /schedules/
get_schedules(user, req) ==
    LET g == RouteGuards(user, req, FALSE, {})
        college_id == get_tenant_college_id(g.ctx, user) IN
    IF ~g.ok THEN Served("get_schedules", user, req, g, g.exc, 0, {}, schedules)
    ELSE IF ~ValidUUID(college_id) THEN
        Served("get_schedules", user, req, g, PythonError("ValueError"), 0,
               {Call("get_schedules", college_id)}, schedules)
    ELSE Served("get_schedules", user, req, g, NoException, 200,
                {Call("get_schedules", college_id)}, schedules)

\* GET /schedules/<schedule_id>
get_schedule(user, req, schedule_id) ==
    LET g == RouteGuards(user, req, FALSE, {})
        college_id == get_tenant_college_id(g.ctx, user)
        calls == {Call("get_schedule_by_id", college_id)} IN
    IF ~g.ok THEN Served("get_schedule", user, req, g, g.exc, 0, {}, schedules)
    ELSE IF schedule_id = 0 \/ ~ValidUUID(college_id) THEN
        Served("get_schedule", user, req, g, PythonError("ValueError"), 0, calls, schedules)
    ELSE IF ~get_schedule_by_id(schedules, schedule_id, college_id) THEN
        Served("get_schedule", user, req, g, NotFoundException("Schedule not found"), 0,
               calls, schedules)
    ELSE Served("get_schedule", user, req, g, NoException, 200, calls, schedules)

\* POST /schedules/ ; class_code = Absent: a required field is missing
create_schedule_route(user, req, class_code) ==
    LET g == RouteGuards(user, req, TRUE, {"COLLEGE_ADMIN", "SUPER_ADMIN"})
        college_id == get_tenant_college_id(g.ctx, user) IN
    IF ~g.ok THEN Served("create_schedule", user, req, g, g.exc, 0, {}, schedules)
    ELSE IF class_code = Absent THEN
        Served("create_schedule", user, req, g,
               ValidationException("Missing required fields"), 0, {}, schedules)
    ELSE IF ~ValidUUID(college_id) THEN
        Served("create_schedule", user, req, g, PythonError("ValueError"), 0,
               {Call("check_conflicts", college_id)}, schedules)
    ELSE IF check_conflicts(schedules, college_id, class_code, 0) THEN
        Served("create_schedule", user, req, g,
               ScheduleConflictException("Schedule conflicts detected"), 0,
               {Call("check_conflicts", college_id)}, schedules)
    ELSE Served("create_schedule", user, req, g, NoException, 201,
                {Call("check_conflicts", college_id), Call("create_schedule", college_id)},
                create_schedule(schedules, college_id, class_code))

\* PUT /schedules/<schedule_id> ; ScheduleService defines no update_schedule, so
\* the call at the end raises AttributeError
update_schedule_route(user, req, schedule_id, class_code) ==
    LET g == RouteGuards(user, req, TRUE, {"COLLEGE_ADMIN", "SUPER_ADMIN"})
        college_id == get_tenant_college_id(g.ctx, user)
        found == {Call("get_schedule_by_id", college_id)}
        checked == IF class_code = Absent THEN found
                   ELSE found \cup {Call("check_conflicts", college_id)} IN
    IF ~g.ok THEN Served("update_schedule", user, req, g, g.exc, 0, {}, schedules)
    ELSE IF schedule_id = 0 \/ ~ValidUUID(college_id) THEN
        Served("update_schedule", user, req, g, PythonError("ValueError"), 0, found, schedules)
    ELSE IF ~get_schedule_by_id(schedules, schedule_id, college_id) THEN
        Served("update_schedule", user, req, g, NotFoundException("Schedule not found"), 0,
               found, schedules)
    ELSE IF class_code # Absent
            /\ check_conflicts(schedules, college_id, class_code, schedule_id) THEN
        Served("update_schedule", user, req, g,
               ScheduleConflictException("Schedule conflicts detected"), 0, checked, schedules)
    ELSE Served("update_schedule", user, req, g, PythonError("AttributeError"), 0,
                checked, schedules)

\* DELETE /schedules/<schedule_id>
delete_schedule_route(user, req, schedule_id) ==
    LET g == RouteGuards(user, req, TRUE, {"COLLEGE_ADMIN", "SUPER_ADMIN"})
        college_id == get_tenant_college_id(g.ctx, user)
        calls == {Call("delete_schedule", college_id)} IN
    IF ~g.ok THEN Served("delete_schedule", user, req, g, g.exc, 0, {}, schedules)
    ELSE IF schedule_id = 0 \/ ~ValidUUID(college_id) THEN
        Served("delete_schedule", user, req, g, PythonError("ValueError"), 0, calls, schedules)
    ELSE Served("delete_schedule", user, req, g, NoException, 200, calls,
                delete_schedule(schedules, schedule_id, college_id))

\* POST /schedules/import ; file = Absent: no file part; n_rows: its data rows
import_schedules(user, req, file, n_rows) ==
    LET g == RouteGuards(user, req, TRUE, {"COLLEGE_ADMIN", "SUPER_ADMIN"})
        college_id == get_tenant_college_id(g.ctx, user)
        calls == {Call("import_from_csv", college_id)} IN
    IF ~g.ok THEN Served("import_schedules", user, req, g, g.exc, 0, {}, schedules)
    ELSE IF file = Absent THEN
        Served("import_schedules", user, req, g,
               ValidationException("CSV file is required"), 0, {}, schedules)
    ELSE IF ~ValidUUID(college_id) THEN
        Served("import_schedules", user, req, g, PythonError("ValueError"), 0, calls, schedules)
    ELSE Served("import_schedules", user, req, g, NoException, 200, calls,
                import_rows(schedules, college_id, file, n_rows))

\* GET /schedules/availability/rooms ; complete: day and time are given
get_room_availability(user, req, complete) ==
    LET g == RouteGuards(user, req, FALSE, {})
        college_id == get_tenant_college_id(g.ctx, user)
        calls == {Call("get_free_rooms", college_id)} IN
    IF ~g.ok THEN Served("get_room_availability", user, req, g, g.exc, 0, {}, schedules)
    ELSE IF ~complete THEN
        Served("get_room_availability", user, req, g,
               ValidationException("Day and time are required"), 0, {}, schedules)
    ELSE IF ~ValidUUID(college_id) THEN
        Served("get_room_availability", user, req, g, PythonError("ValueError"), 0,
               calls, schedules)
    ELSE Served("get_room_availability", user, req, g, NoException, 200, calls, schedules)

\* GET /schedules/availability/faculty ; ScheduleService defines no get_free_faculty
get_faculty_availability(user, req, complete) ==
    LET g == RouteGuards(user, req, FALSE, {})
        college_id == get_tenant_college_id(g.ctx, user) IN
    IF ~g.ok THEN Served("get_faculty_availability", user, req, g, g.exc, 0, {}, schedules)
    ELSE IF ~complete THEN
        Served("get_faculty_availability", user, req, g,
               ValidationException("Day and time are required"), 0, {}, schedules)
    ELSE Served("get_faculty_availability", user, req, g, PythonError("AttributeError"), 0,
                {Call("get_free_faculty", college_id)}, schedules)

ScheduleCallers == SchedulePrincipals \cup {NoUser}

GetSchedules ==
    /\ Idle
    /\ \E user \in ScheduleCallers, req \in ScheduleRequests : get_schedules(user, req)

GetSchedule ==
    /\ Idle
    /\ \E user \in ScheduleCallers, req \in ScheduleRequests, sid \in ScheduleIdInputs :
          get_schedule(user, req, sid)

CreateSchedule ==
    /\ Idle
    /\ Len(schedules) < MaxSchedules
    /\ \E user \in ScheduleCallers, req \in ScheduleRequests,
          class_code \in ClassCodes \cup {Absent} :
          create_schedule_route(user, req, class_code)

UpdateSchedule ==
    /\ Idle
    /\ \E user \in ScheduleCallers, req \in ScheduleRequests, sid \in ScheduleIdInputs,
          class_code \in ClassCodes \cup {Absent} :
          update_schedule_route(user, req, sid, class_code)

DeleteSchedule ==
    /\ Idle
    /\ \E user \in ScheduleCallers, req \in ScheduleRequests, sid \in ScheduleIdInputs :
          delete_schedule_route(user, req, sid)

ImportSchedules ==
    /\ Idle
    /\ \E user \in ScheduleCallers, req \in ScheduleRequests,
          file \in ClassCodes \cup {Absent}, n_rows \in 0 .. (MaxSchedules - Len(schedules)) :
          import_schedules(user, req, file, n_rows)

GetRoomAvailability ==
    /\ Idle
    /\ \E user \in ScheduleCallers, req \in ScheduleRequests, complete \in BOOLEAN :
          get_room_availability(user, req, complete)

GetFacultyAvailability ==
    /\ Idle
    /\ \E user \in ScheduleCallers, req \in ScheduleRequests, complete \in BOOLEAN :
          get_faculty_availability(user, req, complete)

NextSchedules ==
    \/ GetSchedules
    \/ GetSchedule
    \/ CreateSchedule
    \/ UpdateSchedule
    \/ DeleteSchedule
    \/ ImportSchedules
    \/ GetRoomAvailability
    \/ GetFacultyAvailability
    \/ TeardownRequest

SpecSchedules == Init /\ [][NextSchedules]_vars

\* ---------------------------------------------------------------------
\* middleware/rbac_middleware.py: role hierarchy and permission table
\* ---------------------------------------------------------------------

ROLE_HIERARCHY ==
    "SUPER_ADMIN" :> 100 @@ "COLLEGE_ADMIN" :> 50 @@ "FACULTY" :> 10 @@ "STUDENT" :> 1

\* ROLE_HIERARCHY.get(role, 0)
RoleLevel(role) == IF role \in DOMAIN ROLE_HIERARCHY THEN ROLE_HIERARCHY[role] ELSE 0

CRUD == {"create", "read", "update", "delete"}

ROLE_PERMISSIONS ==
    "SUPER_ADMIN" :> (
        "colleges" :> (CRUD \cup {"approve", "suspend"})
        @@ "users" :> (CRUD \cup {"deactivate"})
        @@ "faculty" :> CRUD
        @@ "students" :> CRUD
        @@ "schedules" :> CRUD
        @@ "results" :> (CRUD \cup {"upload"})
        @@ "classes" :> CRUD
        @@ "qna" :> {"read", "approve", "admin"}
        @@ "analytics" :> {"read_all", "export"}
        @@ "audit" :> {"read_all"})
    @@ "COLLEGE_ADMIN" :> (
        "colleges" :> {"read_own"}
        @@ "users" :> {"create", "read", "update"}
        @@ "faculty" :> CRUD
        @@ "students" :> CRUD
        @@ "schedules" :> CRUD
        @@ "results" :> (CRUD \cup {"upload"})
        @@ "classes" :> CRUD
        @@ "qna" :> {"read", "approve"}
        @@ "analytics" :> {"read_own", "export_own"}
        @@ "audit" :> {"read_own"})
    @@ "FACULTY" :> (
        "colleges" :> {}
        @@ "users" :> {"read_own"}
        @@ "faculty" :> {"read_own", "update_own"}
        @@ "students" :> {"read_assigned"}
        @@ "schedules" :> {"read_assigned"}
        @@ "results" :> {"read_assigned"}
        @@ "classes" :> {"read_assigned"}
        @@ "qna" :> {"read", "respond"}
        @@ "analytics" :> {}
        @@ "audit" :> {})
    @@ "STUDENT" :> (
        "colleges" :> {}
        @@ "users" :> {"read_own", "update_own"}
        @@ "faculty" :> {"read_public"}
        @@ "students" :> {"read_own"}
        @@ "schedules" :> {"read_own"}
        @@ "results" :> {"read_own"}
        @@ "classes" :> {"read_own"}
        @@ "qna" :> {"read"}
        @@ "analytics" :> {}
        @@ "audit" :> {})

has_permission(role, resource, action) ==
    IF role \notin DOMAIN ROLE_PERMISSIONS THEN FALSE
    ELSE LET permissions == IF resource \in DOMAIN ROLE_PERMISSIONS[role]
                            THEN ROLE_PERMISSIONS[role][resource]
                            ELSE {} IN
         action \in permissions

\* The exception require_permission(resource, action) raises for g.current_user =
\* user, or NoException when it calls the wrapped function.
require_permission(user, resource, action) ==
    IF ~user.present THEN ForbiddenException("Authentication required")
    ELSE IF ~has_permission(user.role, resource, action)
         THEN ForbiddenException("You do not have permission")
    ELSE NoException

has_higher_or_equal_role(user_role, target_role) ==
    RoleLevel(user_role) >= RoleLevel(target_role)

can_manage_role_or_equal(user_role, target_role) ==
    RoleLevel(user_role) >= RoleLevel(target_role)

can_manage_role(user_role, target_role) ==
    RoleLevel(user_role) > RoleLevel(target_role)

\* The exception validate_role_change raises, or NoException when it returns True.
validate_role_change(user_role, current_role, new_role) ==
    IF user_role = "SUPER_ADMIN" THEN NoException
    ELSE IF ~can_manage_role(user_role, current_role)
         THEN RoleEscalationException("Cannot modify user with role")
    ELSE IF ~can_manage_role(user_role, new_role)
         THEN RoleEscalationException("Cannot assign role")
    ELSE NoException

\* ROLE_HIERARCHY of security_middleware.validate_role_change, local to the function
SECURITY_ROLE_HIERARCHY ==
    "SUPER_ADMIN" :> 100 @@ "COLLEGE_ADMIN" :> 50 @@ "FACULTY" :> 10 @@ "STAFF" :> 5
    @@ "STUDENT" :> 1

SecurityRoleLevel(role) ==
    IF role \in DOMAIN SECURITY_ROLE_HIERARCHY THEN SECURITY_ROLE_HIERARCHY[role] ELSE 0

\* security_middleware.validate_role_change: the exception it raises, or
\* NoException when it returns True
security_validate_role_change(current_role, target_current_role, new_role) ==
    IF current_role = "SUPER_ADMIN" THEN NoException
    ELSE IF SecurityRoleLevel(target_current_role) >= SecurityRoleLevel(current_role)
         THEN RoleEscalationException("Cannot modify role of user at or above your permission level")
    ELSE IF SecurityRoleLevel(new_role) >= SecurityRoleLevel(current_role)
         THEN RoleEscalationException("Cannot assign role with equal or higher privileges")
    ELSE NoException

\* the resource and action names of the table, and one of each that it lacks
Resources == DOMAIN ROLE_PERMISSIONS["SUPER_ADMIN"] \cup {"reports"}

Actions ==
    UNION {ROLE_PERMISSIONS[r][x] : r \in DOMAIN ROLE_PERMISSIONS,
                                    x \in DOMAIN ROLE_PERMISSIONS["SUPER_ADMIN"]}
    \cup {"archive"}

\* a call of a function of the module outside any request
Called(fn, args, value, exc) ==
    /\ phase' = "responded"
    /\ route' = "<none>"
    /\ request' = NoRequest
    /\ current_user' = NoUser
    /\ tenant_context' = NoTenantContext
    /\ raised' = exc
    /\ response' = NoResponse
    /\ wrapped_ran' = FALSE
    /\ base_query' = NotQueried
    /\ svc_calls' = {}
    /\ returned' = Returned(fn, args, value)
    /\ UNCHANGED <<dbvars, authvars, procvars>>

HasPermissionCall ==
    /\ Idle
    /\ \E role \in AllRoles, resource \in Resources, action \in Actions :
          Called("has_permission", <<role, resource, action>>,
                 has_permission(role, resource, action), NoException)

HasHigherOrEqualRoleCall ==
    /\ Idle
    /\ \E user_role \in AllRoles, target_role \in AllRoles :
          Called("has_higher_or_equal_role", <<user_role, target_role>>,
                 has_higher_or_equal_role(user_role, target_role), NoException)

CanManageRoleCall ==
    /\ Idle
    /\ \E user_role \in AllRoles, target_role \in AllRoles :
          Called("can_manage_role", <<user_role, target_role>>,
                 can_manage_role(user_role, target_role), NoException)

ValidateRoleChangeCall ==
    /\ Idle
    /\ \E user_role \in AllRoles, current_role \in AllRoles, new_role \in AllRoles :
          LET e == validate_role_change(user_role, current_role, new_role) IN
          Called("validate_role_change", <<user_role, current_role, new_role>>,
                 e = NoException, e)

SecurityValidateRoleChangeCall ==
    /\ Idle
    /\ \E current_role \in AllRoles, target_current_role \in AllRoles, new_role \in AllRoles :
          LET e == security_validate_role_change(current_role, target_current_role, new_role) IN
          Called("security_middleware.validate_role_change",
                 <<current_role, target_current_role, new_role>>, e = NoException, e)

\* A view function f decorated with @require_permission(resource, action); f
\* returns 200.
PermissionGuardedView(user, resource, action) ==
    LET e == require_permission(user, resource, action) IN
    /\ phase' = "responded"
    /\ route' = "permission_guarded_view"
    /\ request' = NoRequest
    /\ current_user' = user
    /\ tenant_context' = NoTenantContext
    /\ raised' = e
    /\ response' = IF e = NoException THEN OkResponse(200) ELSE handle_exception(e)
    /\ wrapped_ran' = (e = NoException)
    /\ base_query' = NotQueried
    /\ svc_calls' = {}
    /\ returned' = Returned("require_permission", <<resource, action>>, e = NoException)
    /\ UNCHANGED <<dbvars, authvars, procvars>>

PermissionGuardedRequest ==
    /\ Idle
    /\ \E user \in SchedulePrincipals \cup {NoUser}, resource \in Resources,
          action \in Actions :
          PermissionGuardedView(user, resource, action)

\* the allowed_roles lists of the decorated routes
AllowedRoleLists == SUBSET {"COLLEGE_ADMIN", "FACULTY", "STUDENT"}

\* A view function f decorated with @require_roles(allowed_roles) alone; f
\* returns 200.
RolesGuardedView(user, allowed_roles) ==
    LET e == require_roles(user, allowed_roles) IN
    /\ phase' = "responded"
    /\ route' = "roles_guarded_view"
    /\ request' = NoRequest
    /\ current_user' = user
    /\ tenant_context' = NoTenantContext
    /\ raised' = e
    /\ response' = IF e = NoException THEN OkResponse(200) ELSE handle_exception(e)
    /\ wrapped_ran' = (e = NoException)
    /\ base_query' = NotQueried
    /\ svc_calls' = {}
    /\ returned' = Returned("require_roles", <<allowed_roles>>, e = NoException)
    /\ UNCHANGED <<dbvars, authvars, procvars>>

RolesGuardedRequest ==
    /\ Idle
    /\ \E user \in Principals \cup {NoUser}, allowed_roles \in AllowedRoleLists :
          RolesGuardedView(user, allowed_roles)

NextRbac ==
    \/ RolesGuardedRequest
    \/ HasPermissionCall
    \/ HasHigherOrEqualRoleCall
    \/ CanManageRoleCall
    \/ ValidateRoleChangeCall
    \/ SecurityValidateRoleChangeCall
    \/ PermissionGuardedRequest
    \/ TeardownRequest

SpecRbac == Init /\ [][NextRbac]_vars

\* ---------------------------------------------------------------------
\* services/audit_service.py: AuditService.log
\* ---------------------------------------------------------------------

\* Python's `a or b`
Or(a, b) == IF Truthy(a) THEN a ELSE b

\* the row AuditService.log inserts for g.current_user = user; college_id, user_id,
\* user_email and user_role are the overrides of the caller (None when not given)
AuditRow(user, action_type, entity_type, entity_id, college_id, severity, user_id, user_email, user_role) ==
    [college_id |-> Or(college_id, user.college_id),
     user_id |-> Or(user_id, user.user_id),
     user_email |-> Or(user_email, user.email),
     user_role |-> Or(user_role, user.role),
     action_type |-> action_type,
     entity_type |-> entity_type,
     entity_id |-> entity_id,
     severity |-> severity]

\* a log that keeps the newest record only
log_as_latest_only(logs, user, action_type, entity_type, entity_id, college_id, severity, user_id, user_email, user_role) ==
    <<AuditRow(user, action_type, entity_type, entity_id, college_id,
               severity, user_id, user_email, user_role)>>

\* table audit_logs after AuditService.log; the INSERT meets no constraint it
\* could violate, so log returns True
log(logs, user, action_type, entity_type, entity_id, college_id, severity, user_id, user_email, user_role) ==
    Append(logs, AuditRow(user, action_type, entity_type, entity_id, college_id,
                          severity, user_id, user_email, user_role))

\* what the database does with an audit write: the write succeeds, the INSERT
\* fails (the table is locked or missing), or the database cannot be opened
StoreConditions == {"ok", "insert_fails", "unavailable"}

\* sqlite3.OperationalError, which no handler of the application is registered for
OperationalError(message) ==
    [cls |-> "OperationalError", code |-> "<none>", status_code |-> 0, message |-> message]

\* what an audit call leaves: the exception it raised to its caller, the value it
\* returned and table audit_logs
Logged(exc, value, logs) == [raised |-> exc, value |-> value, audit_logs |-> logs]

\* AuditService.log with the database in condition store: the connection is
\* opened before the try block, the INSERT and the commit run inside it
AuditService_log(logs, user, action_type, entity_type, entity_id, college_id, severity, user_id, user_email, user_role, store) ==
    CASE store = "unavailable" ->
            Logged(OperationalError("unable to open database file"), None, logs)
      [] store = "insert_fails" -> Logged(NoException, FALSE, logs)
      [] OTHER ->
            Logged(NoException, TRUE,
                   log(logs, user, action_type, entity_type, entity_id, college_id,
                       severity, user_id, user_email, user_role))

\* ---------------------------------------------------------------------
\* services/user_service.py over table users
\* ---------------------------------------------------------------------

\* UserService._log_audit
_log_audit(logs, user, action, entity_type, entity_id) ==
    log(logs, user, action, entity_type, entity_id, None, "INFO", None, None, None)

\* the dict a UserService method returns
UserError(error) == [error |-> error, user_id |-> None, reactivated |-> FALSE]

UserSuccess(user_id, reactivated) ==
    [error |-> None, user_id |-> user_id, reactivated |-> reactivated]

\* what a UserService method leaves: its result and the two tables
Outcome(result, tbl, logs) == [result |-> result, users |-> tbl, audit_logs |-> logs]

\* data['email'].lower().strip()
NormalizeEmail(email) ==
    CASE email = " Faculty@Test2.edu" -> "faculty@test2.edu"
      [] OTHER -> email

\* uuid.uuid4(): an id no row has; which one is immaterial
FreshUserIds == {"user-new-1"}

NewUserId(tbl) == CHOOSE id \in FreshUserIds : id \notin DOMAIN tbl

\* SELECT user_id, status, is_deleted FROM users WHERE LOWER(email) = :email
UsersByEmail(tbl, email) == {u \in DOMAIN tbl : NormalizeEmail(tbl[u].email) = email}

AdminRoles == {"SUPER_ADMIN", "COLLEGE_ADMIN"}

\* the role hierarchy check of create_user for a COLLEGE_ADMIN caller
role_above_admin_level(role_code) ==
    RolesTable[role_code] > RolesTable["COLLEGE_ADMIN"]

role_at_or_above_admin_level(role_code) ==
    RolesTable[role_code] >= RolesTable["COLLEGE_ADMIN"]

\* UserService.create_user(data) for g.current_user = actor; data.email and data.role_code are Absent when
\* the key is missing
create_user(actor, tbl, logs, data) ==
    LET email == NormalizeEmail(data.email)
        existing == UsersByEmail(tbl, email)
        college_id == IF actor.role = "COLLEGE_ADMIN" THEN actor.college_id
                      ELSE data.college_id IN
    IF actor.role \notin AdminRoles THEN Outcome(UserError("ACCESS_DENIED"), tbl, logs)
    ELSE IF ~Truthy(data.email) \/ ~Truthy(data.role_code) THEN
        Outcome(UserError("VALIDATION"), tbl, logs)
    ELSE IF \E u \in existing : ~(tbl[u].is_deleted \/ tbl[u].status = "INACTIVE") THEN
        Outcome(UserError("DUPLICATE"), tbl, logs)
    ELSE IF data.role_code \notin DOMAIN RolesTable THEN
        Outcome(UserError("VALIDATION"), tbl, logs)
    ELSE IF /\ actor.role = "COLLEGE_ADMIN"
            /\ role_at_or_above_admin_level(data.role_code) THEN
        Outcome(UserError("ACCESS_DENIED"), tbl, logs)
    ELSE IF existing # {} THEN
        LET user_id == CHOOSE u \in existing : TRUE IN
        Outcome(UserSuccess(user_id, TRUE),
                [tbl EXCEPT ![user_id] =
                    [@ EXCEPT !.role_code = data.role_code, !.college_id = college_id,
                              !.status = "ACTIVE", !.is_deleted = FALSE]],
                _log_audit(logs, actor, "REACTIVATE", "user", user_id))
    ELSE
        LET user_id == NewUserId(tbl) IN
        Outcome(UserSuccess(user_id, FALSE),
                tbl @@ (user_id :> UserRow(email, data.role_code, college_id, "ACTIVE")),
                _log_audit(logs, actor, "CREATE", "user", user_id))

\* UserService.update_user_role(user_id, new_role, new_college_id)
update_user_role(actor, tbl, logs, user_id, new_role, new_college_id) ==
    LET found == user_id \in DOMAIN tbl /\ ~tbl[user_id].is_deleted
        target_user == tbl[user_id]
        college_to_set ==
            IF actor.role = "SUPER_ADMIN" /\ new_college_id # None
            THEN (IF new_college_id # "" THEN new_college_id ELSE None)
            ELSE target_user.college_id IN
    IF actor.role \notin AdminRoles THEN Outcome(UserError("ACCESS_DENIED"), tbl, logs)
    ELSE IF ~found THEN Outcome(UserError("NOT_FOUND"), tbl, logs)
    ELSE IF /\ actor.role = "COLLEGE_ADMIN"
            /\ target_user.college_id # actor.college_id THEN
        Outcome(UserError("ACCESS_DENIED"), tbl, logs)
    ELSE IF validate_role_change(actor.role, target_user.role_code, new_role)
               # NoException THEN
        Outcome(UserError("ROLE_ESCALATION"), tbl, logs)
    ELSE IF new_role \notin DOMAIN RolesTable THEN
        Outcome(UserError("VALIDATION"), tbl, logs)
    ELSE
        Outcome(UserSuccess(None, FALSE),
                [tbl EXCEPT ![user_id] =
                    [@ EXCEPT !.role_code = new_role, !.college_id = college_to_set]],
                _log_audit(logs, actor, "UPDATE_USER_ADMIN", "user", user_id))

\* UserService.deactivate_user(user_id)
deactivate_user(actor, tbl, logs, user_id) ==
    IF actor.role \notin AdminRoles THEN Outcome(UserError("ACCESS_DENIED"), tbl, logs)
    ELSE IF actor.user_id = user_id THEN Outcome(UserError("VALIDATION"), tbl, logs)
    ELSE IF /\ actor.role = "COLLEGE_ADMIN"
            /\ \/ user_id \notin DOMAIN tbl
               \/ tbl[user_id].college_id # actor.college_id THEN
        Outcome(UserError("ACCESS_DENIED"), tbl, logs)
    ELSE IF user_id \notin DOMAIN tbl \/ tbl[user_id].is_deleted THEN
        Outcome(UserError("NOT_FOUND"), tbl, logs)
    ELSE
        Outcome(UserSuccess(None, FALSE),
                [tbl EXCEPT ![user_id] = [@ EXCEPT !.status = "INACTIVE"]],
                _log_audit(logs, actor, "DEACTIVATE", "user", user_id))

\* ---------------------------------------------------------------------
\* services/audit_service.py: AuditService.get_logs
\* ---------------------------------------------------------------------

\* SQL's = : no row matches when either side is NULL
SqlEq(a, b) == a # None /\ b # None /\ a = b

\* ORDER BY created_at DESC
Reverse(s) == [i \in 1 .. Len(s) |-> s[Len(s) + 1 - i]]

LogsError(error) == [error |-> error, items |-> <<>>, total |-> 0]

\* AuditService.get_logs(action_filter=...) for g.current_user = user; the page
\* holds every matching row (per_page = 50)
get_logs(user, logs, action_filter) ==
    LET Matches(r) ==
            /\ user.role = "COLLEGE_ADMIN" => SqlEq(r.college_id, user.college_id)
            /\ Truthy(action_filter) => r.action_type = action_filter
        items == Reverse(SelectSeq(logs, Matches)) IN
    IF user.role \in {"FACULTY", "STAFF", "STUDENT"} THEN LogsError("ACCESS_DENIED")
    ELSE IF ~Truthy(user.role) THEN LogsError("UNAUTHORIZED")
    ELSE [error |-> None, items |-> items, total |-> Len(items)]

\* ---------------------------------------------------------------------
\* routes/college_admin.py and routes/super_admin.py: users and audit logs
\* ---------------------------------------------------------------------

MaxUserOps == 2

MaxSuperAdminOps == 1

\* the successful operations of SUPER_ADMIN principals so far
SuperAdminOps(logs) == Cardinality({i \in DOMAIN logs : logs[i].user_role = "SUPER_ADMIN"})

\* the tokens of the seeded users, as issued at their login
TokenOf(user_id) ==
    [User(user_id, SeedUsers[user_id].role_code, SeedUsers[user_id].college_id)
        EXCEPT !.email = SeedUsers[user_id].email]

CollegeCallers ==
    {TokenOf(u) : u \in {"user-college-admin-1", "user-college-admin-2", "user-faculty-1"}}
    \cup {NoUser}

SuperAdminCallers == {TokenOf("user-super-admin"), TokenOf("user-college-admin-1")}

UserRequests == [header : {None, "c2"}, path : {Absent}, query : {None}, body : {Absent}]

EmailInputs == {Absent, "new@test1.edu", "faculty@test1.edu", " Faculty@Test2.edu"}

RoleInputs == {Absent, "SUPER_ADMIN", "COLLEGE_ADMIN", "STAFF", UnknownRole}

UserIdInputs ==
    {"user-college-admin-1", "user-faculty-1", "user-faculty-2", "user-new-1"}

\* @require_auth @require_roles(['SUPER_ADMIN']) of the super admin routes
AdminGuards(user) ==
    IF ~user.present THEN
        [ok |-> FALSE, exc |-> UnauthorizedException("Authentication token is required"),
         ctx |-> NoTenantContext]
    ELSE [ok |-> require_roles(user, {"SUPER_ADMIN"}) = NoException,
          exc |-> require_roles(user, {"SUPER_ADMIN"}), ctx |-> NoTenantContext]

\* jsonify(result), status_map.get(result['error'], 500) / jsonify(result), ok_status
ResultResponse(result, status_map, default, ok_status) ==
    IF result.error = None THEN OkResponse(ok_status)
    ELSE [status |-> IF result.error \in DOMAIN status_map THEN status_map[result.error]
                     ELSE default,
          code |-> result.error, message |-> "<none>"]

\* the state a route of the two admin blueprints leaves behind
AdminServed(rt, user, req, g, resp, ret, tbl, logs) ==
    /\ phase' = "responded"
    /\ route' = rt
    /\ request' = req
    /\ current_user' = user
    /\ tenant_context' = g.ctx
    /\ raised' = g.exc
    /\ response' = IF g.ok THEN resp ELSE handle_exception(g.exc)
    /\ wrapped_ran' = g.ok
    /\ base_query' = NotQueried
    /\ svc_calls' = {}
    /\ returned' = IF g.ok THEN ret ELSE NoReturn
    /\ users' = IF g.ok THEN tbl ELSE users
    /\ audit_logs' = IF g.ok THEN logs ELSE audit_logs
    /\ UNCHANGED <<schedules, authvars, procvars>>

CreateStatus == "ACCESS_DENIED" :> 403 @@ "VALIDATION" :> 400 @@ "DUPLICATE" :> 409

UpdateRoleStatus == "ACCESS_DENIED" :> 403 @@ "NOT_FOUND" :> 404 @@ "ROLE_ESCALATION" :> 403

DeactivateStatus == "ACCESS_DENIED" :> 403 @@ "NOT_FOUND" :> 404 @@ "VALIDATION" :> 400

\* POST /college-admin/users
college_admin_create_user(user, req, email, role_code) ==
    LET g == RouteGuards(user, req, TRUE, {"COLLEGE_ADMIN", "SUPER_ADMIN"})
        data == [email |-> email, role_code |-> role_code,
                 college_id |-> get_tenant_college_id(g.ctx, user)]
        out == create_user(user, users, audit_logs, data) IN
    AdminServed("college_admin.create_user", user, req, g,
                ResultResponse(out.result, CreateStatus, 500, 201),
                Returned("create_user", <<data>>, out.result), out.users, out.audit_logs)

\* PUT /college-admin/users/<user_id>/role ; new_role = Absent: no 'role' in the body
college_admin_update_user_role(user, req, user_id, new_role) ==
    LET g == RouteGuards(user, req, TRUE, {"COLLEGE_ADMIN", "SUPER_ADMIN"})
        out == update_user_role(user, users, audit_logs, user_id, new_role, None) IN
    IF g.ok /\ ~Truthy(new_role) THEN
        AdminServed("college_admin.update_user_role", user, req, g,
                    [status |-> 400, code |-> "VALIDATION", message |-> "role is required"],
                    NoReturn, users, audit_logs)
    ELSE
        AdminServed("college_admin.update_user_role", user, req, g,
                    ResultResponse(out.result, UpdateRoleStatus, 500, 200),
                    Returned("update_user_role", <<user_id, new_role, None>>, out.result),
                    out.users, out.audit_logs)

\* POST /college-admin/users/<user_id>/deactivate
college_admin_deactivate_user(user, req, user_id) ==
    LET g == RouteGuards(user, req, TRUE, {"COLLEGE_ADMIN"})
        out == deactivate_user(user, users, audit_logs, user_id) IN
    AdminServed("college_admin.deactivate_user", user, req, g,
                ResultResponse(out.result, DeactivateStatus, 500, 200),
                Returned("deactivate_user", <<user_id>>, out.result),
                out.users, out.audit_logs)

\* GET /college-admin/audit-logs
college_admin_get_audit_logs(user, req, action) ==
    LET g == RouteGuards(user, req, TRUE, {"COLLEGE_ADMIN", "SUPER_ADMIN"})
        result == get_logs(user, audit_logs, action) IN
    AdminServed("college_admin.get_audit_logs", user, req, g,
                ResultResponse(result, <<>>, 403, 200),
                Returned("get_logs", <<action>>, result), users, audit_logs)

\* POST /super-admin/users
super_admin_create_user(user, email, role_code, college_id) ==
    LET g == AdminGuards(user)
        data == [email |-> email, role_code |-> role_code, college_id |-> college_id]
        out == create_user(user, users, audit_logs, data) IN
    AdminServed("super_admin.create_user", user, NoRequest, g,
                ResultResponse(out.result, CreateStatus, 500, 201),
                Returned("create_user", <<data>>, out.result), out.users, out.audit_logs)

\* PUT /super-admin/users/<user_id>/role
super_admin_update_user_role(user, user_id, new_role, new_college) ==
    LET g == AdminGuards(user)
        out == update_user_role(user, users, audit_logs, user_id, new_role, new_college) IN
    IF g.ok /\ ~Truthy(new_role) THEN
        AdminServed("super_admin.update_user_role", user, NoRequest, g,
                    [status |-> 400, code |-> "VALIDATION", message |-> "role is required"],
                    NoReturn, users, audit_logs)
    ELSE
        AdminServed("super_admin.update_user_role", user, NoRequest, g,
                    ResultResponse(out.result, UpdateRoleStatus, 500, 200),
                    Returned("update_user_role", <<user_id, new_role, new_college>>,
                             out.result),
                    out.users, out.audit_logs)

\* POST /super-admin/users/<user_id>/deactivate
super_admin_deactivate_user(user, user_id) ==
    LET g == AdminGuards(user)
        out == deactivate_user(user, users, audit_logs, user_id) IN
    AdminServed("super_admin.deactivate_user", user, NoRequest, g,
                ResultResponse(out.result, DeactivateStatus, 500, 200),
                Returned("deactivate_user", <<user_id>>, out.result),
                out.users, out.audit_logs)

\* GET /super-admin/audit-logs
super_admin_get_audit_logs(user, action) ==
    LET g == AdminGuards(user)
        result == get_logs(user, audit_logs, action) IN
    AdminServed("super_admin.get_audit_logs", user, NoRequest, g,
                ResultResponse(result, <<>>, 403, 200),
                Returned("get_logs", <<action>>, result), users, audit_logs)

\* AuditService().get_logs(...) called with g.current_user = user, by any caller
\* in the application
get_logs_call(user, action) ==
    AdminServed("<service>", user, NoRequest,
                [ok |-> TRUE, exc |-> NoException, ctx |-> NoTenantContext],
                NoResponse, Returned("get_logs", <<action>>, get_logs(user, audit_logs, action)),
                users, audit_logs)

ActionFilters == {None, "CREATE"}

\* g.current_user of the callers of get_logs
AuditReaders == {User("u1", r, c) : r \in AllRoles \cup {None}, c \in CollegeIds \cup {None}}

CollegeAdminCreateUser ==
    /\ Idle
    /\ Len(audit_logs) < MaxUserOps
    /\ \E user \in CollegeCallers, req \in UserRequests, email \in EmailInputs,
          role_code \in RoleInputs :
          college_admin_create_user(user, req, email, role_code)

CollegeAdminUpdateUserRole ==
    /\ Idle
    /\ Len(audit_logs) < MaxUserOps
    /\ \E user \in CollegeCallers, req \in UserRequests, user_id \in UserIdInputs,
          new_role \in RoleInputs :
          college_admin_update_user_role(user, req, user_id, new_role)

CollegeAdminDeactivateUser ==
    /\ Idle
    /\ Len(audit_logs) < MaxUserOps
    /\ \E user \in CollegeCallers, req \in UserRequests, user_id \in UserIdInputs :
          college_admin_deactivate_user(user, req, user_id)

CollegeAdminGetAuditLogs ==
    /\ Idle
    /\ \E user \in CollegeCallers, req \in UserRequests, action \in ActionFilters :
          college_admin_get_audit_logs(user, req, action)

SuperAdminCreateUser ==
    /\ Idle
    /\ Len(audit_logs) < MaxUserOps
    /\ SuperAdminOps(audit_logs) < MaxSuperAdminOps
    /\ \E user \in SuperAdminCallers, role_code \in {"COLLEGE_ADMIN", UnknownRole} :
          super_admin_create_user(user, "new@test1.edu", role_code, "c2")

SuperAdminUpdateUserRole ==
    /\ Idle
    /\ Len(audit_logs) < MaxUserOps
    /\ SuperAdminOps(audit_logs) < MaxSuperAdminOps
    /\ \E user \in SuperAdminCallers,
          user_id \in {"user-college-admin-1", "user-faculty-1"},
          new_role \in {Absent, "COLLEGE_ADMIN"}, new_college \in {None, "", "c2"} :
          super_admin_update_user_role(user, user_id, new_role, new_college)

\* the same route, used to take the role of a college admin away
SuperAdminDemoteCollegeAdmin ==
    /\ Idle
    /\ Len(audit_logs) < MaxUserOps
    /\ SuperAdminOps(audit_logs) < MaxSuperAdminOps
    /\ \E user \in SuperAdminCallers :
          super_admin_update_user_role(user, "user-college-admin-1", "FACULTY", None)

SuperAdminDeactivateUser ==
    /\ Idle
    /\ Len(audit_logs) < MaxUserOps
    /\ SuperAdminOps(audit_logs) < MaxSuperAdminOps
    /\ \E user \in SuperAdminCallers,
          user_id \in {"user-super-admin", "user-college-admin-1", "user-faculty-2"} :
          super_admin_deactivate_user(user, user_id)

SuperAdminGetAuditLogs ==
    /\ Idle
    /\ \E user \in SuperAdminCallers, action \in ActionFilters :
          super_admin_get_audit_logs(user, action)

GetLogsCall ==
    /\ Idle
    /\ \E user \in AuditReaders \cup {NoUser}, action \in ActionFilters :
          get_logs_call(user, action)

NextUsers ==
    \/ CollegeAdminCreateUser
    \/ CollegeAdminUpdateUserRole
    \/ CollegeAdminDeactivateUser
    \/ CollegeAdminGetAuditLogs
    \/ SuperAdminCreateUser
    \/ SuperAdminUpdateUserRole
    \/ SuperAdminDemoteCollegeAdmin
    \/ SuperAdminDeactivateUser
    \/ SuperAdminGetAuditLogs
    \/ GetLogsCall
    \/ TeardownRequest

SpecUsers == Init /\ [][NextUsers]_vars

\* ---------------------------------------------------------------------
\* JSON Web Tokens: jwt.encode and jwt.decode (HS256)
\* ---------------------------------------------------------------------

\* current_app.config['JWT_SECRET_KEY']
JWT_SECRET_KEY == "JWT_SECRET_KEY"

\* a timestamp claim the payload does not carry
NoTime == -1

Payload(sub, email, college_id, role, type, iat, exp) ==
    [sub |-> sub, email |-> email, college_id |-> college_id, role |-> role,
     type |-> type, iat |-> iat, exp |-> exp]

NoPayload == Payload(Absent, Absent, Absent, Absent, Absent, NoTime, NoTime)

\* jwt.encode(payload, key, algorithm='HS256'): three segments, signed with key
jwt_encode(payload, key) == [shape |-> "jwt", key |-> key, payload |-> payload]

\* a string that is not three base64 segments, such as 'invalid-token-here'
GarbageToken == [shape |-> "garbage", key |-> "<none>", payload |-> NoPayload]

\* None where a token is expected
NoToken == [shape |-> "none", key |-> "<none>", payload |-> NoPayload]

\* the payload lacks the claim
ClaimMissing(payload, claim) ==
    IF claim \in {"iat", "exp"} THEN payload[claim] = NoTime ELSE payload[claim] = Absent

DecodeFailed(error) == [error |-> error, payload |-> NoPayload]

\* jwt.decode(token, key, algorithms=['HS256'], options={'require': required}) at
\* time t: the segments, the signature, the required claims, then exp
jwt_decode(token, key, required, t) ==
    IF token.shape # "jwt" THEN DecodeFailed("DecodeError")
    ELSE IF token.key # key THEN DecodeFailed("InvalidSignatureError")
    ELSE IF \E claim \in required : ClaimMissing(token.payload, claim) THEN
        DecodeFailed("MissingRequiredClaimError")
    ELSE IF token.payload.exp # NoTime /\ token.payload.exp <= t THEN
        DecodeFailed("ExpiredSignatureError")
    ELSE [error |-> "<none>", payload |-> token.payload]

\* dict.get(key): None when the key is missing
Get(v) == IF v = Absent THEN None ELSE v

\* str(v) of a string or None
Str(v) == IF v = None THEN "None" ELSE v

\* hashlib.sha256(token.encode()).hexdigest(): one fingerprint per token
Sha256(token) == [sha256 |-> token]

\* ---------------------------------------------------------------------
\* middleware/auth_middleware.py
\* ---------------------------------------------------------------------

\* the Authorization header: the parts of auth_header.split()
NoAuthorization == [parts |-> 0, scheme |-> "", credentials |-> NoToken]

Authorization(scheme, token) == [parts |-> 2, scheme |-> scheme, credentials |-> token]

\* the token alone, with no scheme before it
BareAuthorization(token) == [parts |-> 1, scheme |-> "", credentials |-> token]

\* str.lower() of a scheme
Lower(scheme) == IF scheme \in {"Bearer", "BEARER"} THEN "bearer" ELSE scheme

\* a request with its Authorization header, its ?token= parameter and the
\* refresh_token and code of its JSON body (NoToken and Absent when the key is missing)
AuthRequest(authorization, token, json, code) ==
    [header |-> None, path |-> Absent, query |-> None, body |-> Absent,
     authorization |-> authorization, token |-> token, json |-> json, code |-> code]

_extract_token(req) ==
    IF req.authorization.parts = 2 /\ Lower(req.authorization.scheme) = "bearer"
    THEN req.authorization.credentials
    ELSE req.token

_verify_token(token, t) == jwt_decode(token, JWT_SECRET_KEY, {"sub", "exp", "iat"}, t)

\* g.current_user as require_auth sets it from a verified payload
PrincipalOf(payload) ==
    [present |-> TRUE, user_id |-> payload.sub, role |-> Get(payload.role),
     college_id |-> Get(payload.college_id), email |-> Get(payload.email)]

\* @require_auth at time t: the exception it raises and the principal it sets
require_auth(req, t) ==
    LET token == _extract_token(req)
        decoded == _verify_token(token, t) IN
    IF token = NoToken THEN
        [ok |-> FALSE, exc |-> UnauthorizedException("Authentication token is required"),
         user |-> NoUser]
    ELSE IF decoded.error = "ExpiredSignatureError" THEN
        [ok |-> FALSE, exc |-> TokenExpiredException("Token has expired"), user |-> NoUser]
    ELSE IF decoded.error # "<none>" THEN
        [ok |-> FALSE, exc |-> InvalidTokenException("Invalid authentication token"),
         user |-> NoUser]
    ELSE [ok |-> TRUE, exc |-> NoException, user |-> PrincipalOf(decoded.payload)]

\* the dict a token is issued for; a key that is missing is Absent
UserData(user_id, email, college_id, role) ==
    [user_id |-> user_id, email |-> email, college_id |-> college_id, role |-> role]

\* create_access_token(user_data) at time t with JWT_ACCESS_TOKEN_EXPIRES = ttl
create_access_token(user_data, t, ttl) ==
    jwt_encode(Payload(Str(user_data.user_id), Get(user_data.email),
                       Str(IF user_data.college_id = Absent THEN ""
                           ELSE user_data.college_id),
                       Get(user_data.role), "access", t, t + ttl),
               JWT_SECRET_KEY)

\* create_refresh_token(user_id) at time t with JWT_REFRESH_TOKEN_EXPIRES = ttl
create_refresh_token(user_id, t, ttl) ==
    jwt_encode(Payload(Str(user_id), Absent, Absent, Absent, "refresh", t, t + ttl),
               JWT_SECRET_KEY)

\* ---------------------------------------------------------------------
\* middleware/security_middleware.py: SecurityMiddleware
\* ---------------------------------------------------------------------

\* AuditService.log_security_event(event_type, details, severity='WARNING')
log_security_event(logs, user) ==
    log(logs, user, "SECURITY_VIOLATION", "security", None, None, "WARNING", None, None, None)

\* _log_security_event: AuditService() needs an application context; without
\* one it raises and the exception is swallowed
_log_security_event(logs, user, in_app_context) ==
    IF in_app_context THEN log_security_event(logs, user) ELSE logs

\* block_token(token): _blocked_tokens and table audit_logs after the call
block_token(blocked, logs, user, token, in_app_context) ==
    [blocked |-> blocked \cup {Sha256(token)},
     audit_logs |-> _log_security_event(logs, user, in_app_context)]

is_token_blocked(blocked, token) == Sha256(token) \in blocked

\* ---------------------------------------------------------------------
\* services/auth_service.py: AuthService
\* ---------------------------------------------------------------------

\* _create_access_token(user_data) at time t with JWT_ACCESS_TOKEN_EXPIRES = ttl;
\* the payload has no type claim
_create_access_token(user_data, t, ttl) ==
    jwt_encode(Payload(Str(user_data.user_id), user_data.email,
                       Str(Or(Get(user_data.college_id), "")), user_data.role,
                       Absent, t, t + ttl),
               JWT_SECRET_KEY)

\* _create_refresh_token(user_id) at time t with JWT_REFRESH_TOKEN_EXPIRES = ttl
_create_refresh_token(user_id, t, ttl) ==
    jwt_encode(Payload(Str(user_id), Absent, Absent, Absent, "refresh", t, t + ttl),
               JWT_SECRET_KEY)

RefreshRow(user_id, token_hash, is_revoked) ==
    [user_id |-> user_id, token_hash |-> token_hash, is_revoked |-> is_revoked]

\* _store_refresh_token: INSERT INTO refresh_tokens
_store_refresh_token(rows, user_id, token) ==
    rows \cup {RefreshRow(user_id, Sha256(token), FALSE)}

\* revoke_token: UPDATE refresh_tokens SET is_revoked = 1 WHERE token_hash = ?
revoke_token(rows, token) ==
    {IF row.token_hash = Sha256(token) THEN [row EXCEPT !.is_revoked = TRUE] ELSE row :
        row \in rows}

\* SELECT u.*, r.role_code FROM users u JOIN roles r ... WHERE u.user_id = ?
\* with the table as it was when the process started
_select_user_as_seeded(tbl, user_id) ==
    IF user_id \in DOMAIN SeedUsers THEN {SeedUsers[user_id]} ELSE {}

\* SELECT u.*, r.role_code FROM users u JOIN roles r ... WHERE u.user_id = ?
_select_user(tbl, user_id) ==
    IF user_id \in DOMAIN tbl /\ tbl[user_id].role_code \in DOMAIN RolesTable
    THEN {tbl[user_id]} ELSE {}

NoTokens == [exc |-> NoException, access_token |-> NoToken, refresh_token |-> NoToken]

\* refresh_access_token(refresh_token) at time t
refresh_access_token(rows, tbl, token, t, ttl) ==
    LET decoded == jwt_decode(token, JWT_SECRET_KEY, {}, t)
        user_id == Get(decoded.payload.sub)
        live == {row \in rows : /\ row.user_id = user_id
                                /\ row.token_hash = Sha256(token)
                                /\ ~row.is_revoked}
        found == _select_user(tbl, user_id)
        user == CHOOSE row \in found : TRUE IN
    IF decoded.error = "ExpiredSignatureError" THEN
        [NoTokens EXCEPT !.exc = TokenExpiredException("Refresh token has expired")]
    ELSE IF decoded.error # "<none>" THEN
        [NoTokens EXCEPT !.exc = InvalidTokenException("Invalid refresh token")]
    ELSE IF Get(decoded.payload.type) # "refresh" THEN
        [NoTokens EXCEPT !.exc = InvalidTokenException("Invalid token type")]
    ELSE IF live = {} THEN
        [NoTokens EXCEPT !.exc = InvalidTokenException("Refresh token has been revoked")]
    ELSE IF found = {} THEN
        [NoTokens EXCEPT !.exc = InvalidTokenException("User not found")]
    ELSE [NoTokens EXCEPT !.access_token =
              _create_access_token(UserData(user_id, user.email, user.college_id,
                                            user.role_code), t, ttl)]

\* config SUPER_ADMIN_EMAILS
SUPER_ADMIN_EMAILS == {"admin@campusiq.com"}

get_college_by_domain(email) ==
    CASE email \in {"admin@test1.edu", "faculty@test1.edu", "nobody@test1.edu"} -> "c1"
      [] email \in {"admin@test2.edu", "faculty@test2.edu"} -> "c2"
      [] OTHER -> None

CollegeNotApprovedException(message) ==
    [cls |-> "CollegeNotApprovedException", code |-> "COLLEGE_NOT_APPROVED",
     status_code |-> 403, message |-> message]

\* AuditService.log_login(user_id, user_email, college_id, success=True)
log_login(logs, user, user_id, user_email, college_id, store) ==
    AuditService_log(logs, user, "LOGIN", "session", user_id, college_id, "INFO",
                     user_id, user_email, None, store)

LoginFailed(exc, tbl, rows, logs) ==
    [exc |-> exc, access_token |-> NoToken, refresh_token |-> NoToken,
     user_data |-> UserData(None, None, None, None),
     users |-> tbl, refresh_tokens |-> rows, audit_logs |-> logs]

\* process_google_callback at time t; google_email is the email of the account Google
\* reports for the authorization code, Absent when the exchange fails; store is the
\* condition of the database when the login is logged, after the commit; cols is
\* table colleges
process_google_callback(tbl, cols, rows, logs, google_email, t, ttl, refresh_ttl, store) ==
    LET email == NormalizeEmail(google_email)
        college == get_college_by_domain(email)
        matches == UsersByEmail(tbl, email)
        exists == matches # {}
        user_id == IF exists THEN CHOOSE u \in matches : TRUE ELSE NewUserId(tbl)
        promoted == email \in SUPER_ADMIN_EMAILS
        row == IF exists
               THEN (IF promoted THEN [tbl[user_id] EXCEPT !.role_code = "SUPER_ADMIN"]
                     ELSE tbl[user_id])
               ELSE UserRow(email, "SUPER_ADMIN", college, "ACTIVE")
        tbl2 == IF exists THEN [tbl EXCEPT ![user_id] = row] ELSE tbl @@ (user_id :> row)
        role_code == IF row.role_code \in DOMAIN RolesTable THEN row.role_code ELSE "FACULTY"
        user_data == UserData(user_id, email, row.college_id, role_code)
        access_token == _create_access_token(user_data, t, ttl)
        refresh_token == _create_refresh_token(user_id, t, refresh_ttl)
        rows2 == _store_refresh_token(rows, user_id, refresh_token)
        logged == log_login(logs, NoUser, user_id, email, row.college_id, store) IN
    IF google_email = Absent THEN
        LoginFailed(UnauthorizedException("Failed to exchange authorization code"),
                    tbl, rows, logs)
    ELSE IF ~Truthy(email) THEN
        LoginFailed(UnauthorizedException("Email not provided by Google"), tbl, rows, logs)
    ELSE IF exists /\ tbl[user_id].status \in {"INACTIVE", "SUSPENDED"} THEN
        LoginFailed(UnauthorizedException("Your account has been deactivated"),
                    tbl, rows, logs)
    ELSE IF ~exists /\ ~promoted THEN
        LoginFailed(UnauthorizedException("You do not have access to this platform"),
                    tbl, rows, logs)
    ELSE IF /\ role_code # "SUPER_ADMIN"
            /\ \/ /\ Truthy(row.college_id)
                  /\ row.college_id \in DOMAIN cols
                  /\ cols[row.college_id] # "APPROVED"
               \/ /\ ~Truthy(row.college_id)
                  /\ college # None
                  /\ cols[college] # "APPROVED" THEN
        LoginFailed(CollegeNotApprovedException("Your college is not approved"),
                    tbl2, rows, logs)
    ELSE IF logged.raised # NoException THEN
        LoginFailed(logged.raised, tbl2, rows2, logs)
    ELSE [exc |-> NoException, access_token |-> access_token,
          refresh_token |-> refresh_token, user_data |-> user_data,
          users |-> tbl2, refresh_tokens |-> rows2, audit_logs |-> logged.audit_logs]

\* ---------------------------------------------------------------------
\* Tokens and sessions: inputs and bounds
\* ---------------------------------------------------------------------

MaxTime == 1

MaxTtl == 2

\* the positive lifetimes a token factory is tried with
Lifetimes == 1 .. MaxTtl

\* JWT_ACCESS_TOKEN_EXPIRES and JWT_REFRESH_TOKEN_EXPIRES of the deployment, in
\* seconds: the refresh token outlives the access token
AccessLifetime == 1

RefreshLifetime == AccessLifetime + 1

\* tokens handed out by direct calls of the two token factories
MaxIssued == 2

MaxBlocked == 1

MaxSecurityEvents == 2

MaxLogins == 1

MaxRefreshes == 1

\* the successful logins so far: each wrote one LOGIN row
Logins(logs) == Cardinality({i \in DOMAIN logs : logs[i].action_type = "LOGIN"})

\* a token in a client's hands, the user data it was issued for and the operation
\* that issued it
Issued(token, user_data, by) == [token |-> token, for |-> user_data, by |-> by]

IssuedTokens == {e.token : e \in issued}

\* after every time the model reaches
NeverExpires == MaxTime + MaxTtl + 1

\* what a client can make without the key, and what another holder of the key
\* can sign: each lacks one of the required claims
ForgedTokens ==
    {GarbageToken,
     jwt_encode(Payload("user-super-admin", "admin@campusiq.com", "", "SUPER_ADMIN",
                        Absent, 0, NeverExpires), "attacker-key"),
     jwt_encode(Payload(Absent, "a@b.com", "c1", "FACULTY", Absent, 0, NeverExpires),
                JWT_SECRET_KEY),
     jwt_encode(Payload("u1", "a@b.com", "c1", "FACULTY", Absent, NoTime, NeverExpires),
                JWT_SECRET_KEY),
     jwt_encode(Payload("u1", "a@b.com", "c1", "FACULTY", Absent, 0, NoTime),
                JWT_SECRET_KEY)}

PresentableTokens == IssuedTokens \cup ForgedTokens

\* the requests a client can send with the tokens toks: none of them, one as
\* Bearer, or a token it was issued under another scheme, with no scheme, or as
\* the ?token= parameter
AuthRequests(toks) ==
    {AuthRequest(NoAuthorization, NoToken, NoToken, Absent)}
    \cup {AuthRequest(Authorization("Bearer", token), NoToken, NoToken, Absent) :
            token \in toks}
    \cup {AuthRequest(Authorization(scheme, token), NoToken, NoToken, Absent) :
            scheme \in {"bearer", "Basic"}, token \in IssuedTokens}
    \cup {AuthRequest(BareAuthorization(token), NoToken, NoToken, Absent) :
            token \in IssuedTokens}
    \cup {AuthRequest(NoAuthorization, token, NoToken, Absent) : token \in IssuedTokens}

\* the requests to POST /auth/logout: startswith('Bearer ') tells the schemes apart
LogoutRequests ==
    {AuthRequest(NoAuthorization, NoToken, NoToken, Absent)}
    \cup {AuthRequest(Authorization("Bearer", token), NoToken, NoToken, Absent) :
            token \in IssuedTokens \cup {GarbageToken}}
    \cup {AuthRequest(Authorization("bearer", token), NoToken, NoToken, Absent) :
            token \in IssuedTokens}

\* the user data a token factory is called with; the C16 example is among them
PrincipalData ==
    {UserData("u1", "a@b.com", "c1", "COLLEGE_ADMIN"),
     UserData("user-super-admin", "admin@campusiq.com", None, "SUPER_ADMIN"),
     UserData("u2", "f@b.com", Absent, "FACULTY")}

LoginEmails == {"faculty@test1.edu", " Faculty@Test2.edu", "nobody@test1.edu", "", Absent}

\* the state a request of the auth blueprint, or a call outside any request,
\* leaves in the request context
AuthServed(rt, req, user, exc, resp, ran, ret) ==
    /\ phase' = "responded"
    /\ route' = rt
    /\ request' = req
    /\ current_user' = user
    /\ tenant_context' = NoTenantContext
    /\ raised' = exc
    /\ response' = resp
    /\ wrapped_ran' = ran
    /\ base_query' = NotQueried
    /\ svc_calls' = {}
    /\ returned' = ret
    /\ UNCHANGED <<schedules, procvars>>

\* a view function f decorated with @require_auth; f returns 200
auth_guarded_view(req) ==
    LET r == require_auth(req, now) IN
    /\ AuthServed("auth_guarded_view", req, r.user, r.exc,
                  IF r.ok THEN OkResponse(200) ELSE handle_exception(r.exc), r.ok, NoReturn)
    /\ UNCHANGED <<users, audit_logs, authvars, procvars>>

\* routes/auth.py: POST /auth/logout
logout(req) ==
    LET bearer == req.authorization.parts = 2 /\ req.authorization.scheme = "Bearer"
        token == req.authorization.credentials IN
    /\ AuthServed("auth.logout", req, NoUser, NoException, OkResponse(200), TRUE,
                  IF bearer THEN Returned("revoke_token", <<token>>, TRUE) ELSE NoReturn)
    /\ refresh_tokens' = IF bearer THEN revoke_token(refresh_tokens, token)
                         ELSE refresh_tokens
    /\ UNCHANGED <<users, audit_logs, now, _blocked_tokens, issued>>

\* routes/auth.py: POST /auth/refresh
refresh_token(req) ==
    LET r == refresh_access_token(refresh_tokens, users, req.json, now, AccessLifetime)
        exc == CASE req.json = NoToken -> ValidationException("Refresh token is required")
                 [] r.exc.cls = "TokenExpiredException" ->
                        TokenExpiredException("Refresh token has expired, please login again")
                 [] r.exc.cls = "InvalidTokenException" ->
                        InvalidTokenException("Invalid refresh token")
                 [] OTHER -> NoException
        ok == exc = NoException
        sub == r.access_token.payload.sub IN
    /\ AuthServed("auth.refresh", req, NoUser, exc,
                  IF ok THEN OkResponse(200) ELSE handle_exception(exc), TRUE,
                  IF req.json = NoToken THEN NoReturn
                  ELSE Returned("refresh_access_token", <<req.json>>, r.access_token))
    /\ issued' = IF ok
                 THEN issued \cup {Issued(r.access_token,
                                          UserData(sub, users[sub].email,
                                                   users[sub].college_id,
                                                   users[sub].role_code), "refresh")}
                 ELSE issued
    /\ UNCHANGED <<users, audit_logs, now, _blocked_tokens, refresh_tokens>>

\* routes/auth.py: POST /auth/google/token; code is Absent when the body has none
google_token(code, google_email, store) ==
    LET r == process_google_callback(users, colleges, refresh_tokens, audit_logs,
                                     google_email, now, AccessLifetime, RefreshLifetime,
                                     store)
        exc == IF code = Absent THEN ValidationException("Authorization code is required")
               ELSE r.exc
        ok == exc = NoException IN
    /\ AuthServed("auth.google_token", AuthRequest(NoAuthorization, NoToken, NoToken, code),
                  NoUser, exc,
                  CASE ok -> OkResponse(200)
                    [] exc.cls = "CollegeNotApprovedException" ->
                          [status |-> 403, code |-> "COLLEGE_NOT_APPROVED",
                           message |-> exc.message]
                    [] OTHER -> handle_exception(exc),
                  TRUE,
                  IF code = Absent THEN NoReturn
                  ELSE Returned("process_google_callback", <<google_email>>,
                                r.access_token))
    /\ users' = IF code = Absent THEN users ELSE r.users
    /\ refresh_tokens' = IF code = Absent THEN refresh_tokens ELSE r.refresh_tokens
    /\ audit_logs' = IF code = Absent THEN audit_logs ELSE r.audit_logs
    /\ issued' = IF ok
                 THEN issued \cup {Issued(r.access_token, r.user_data, "login"),
                                   Issued(r.refresh_token, r.user_data, "login")}
                 ELSE issued
    /\ UNCHANGED <<now, _blocked_tokens>>

\* the clock advances between requests
Tick ==
    /\ Idle
    /\ now < MaxTime
    /\ now' = now + 1
    /\ UNCHANGED <<ctxvars, dbvars, _blocked_tokens, refresh_tokens, issued, procvars>>

\* a direct call of one of the two token factories
CreateAccessTokenCall ==
    /\ Idle
    /\ Cardinality(issued) < MaxIssued
    /\ \E user_data \in PrincipalData, ttl \in Lifetimes,
          fn \in {"create_access_token", "_create_access_token"} :
          LET token == IF fn = "create_access_token"
                       THEN create_access_token(user_data, now, ttl)
                       ELSE _create_access_token(user_data, now, ttl) IN
          /\ AuthServed("<none>", NoRequest, NoUser, NoException, NoResponse, FALSE,
                        Returned(fn, <<user_data>>, token))
          /\ issued' = issued \cup {Issued(token, user_data, fn)}
          /\ UNCHANGED <<users, audit_logs, now, _blocked_tokens, refresh_tokens>>

\* a call of SecurityMiddleware.block_token, inside or outside an application context
BlockTokenCall ==
    /\ Idle
    /\ Len(audit_logs) < MaxSecurityEvents
    /\ \E token \in PresentableTokens, in_app_context \in BOOLEAN :
          LET r == block_token(_blocked_tokens, audit_logs, NoUser, token, in_app_context) IN
          /\ is_token_blocked(_blocked_tokens, token)
                \/ Cardinality(_blocked_tokens) < MaxBlocked
          /\ AuthServed("<none>", NoRequest, NoUser, NoException, NoResponse, FALSE,
                        Returned("block_token", <<token>>, None))
          /\ _blocked_tokens' = r.blocked
          /\ audit_logs' = r.audit_logs
          /\ UNCHANGED <<users, now, refresh_tokens, issued>>

AuthGuardedRequest ==
    /\ Idle
    /\ \E req \in AuthRequests(PresentableTokens) : auth_guarded_view(req)

Logout ==
    /\ Idle
    /\ \E req \in LogoutRequests : logout(req)

RefreshToken ==
    /\ Idle
    /\ Cardinality({e \in issued : e.by = "refresh"}) < MaxRefreshes
    /\ \E json \in PresentableTokens \cup {NoToken} :
          refresh_token(AuthRequest(NoAuthorization, NoToken, json, Absent))

GoogleTokenLogin ==
    /\ Idle
    /\ Logins(audit_logs) < MaxLogins
    /\ \E code \in {Absent, "code"}, google_email \in LoginEmails :
          google_token(code, google_email, "ok")

NextAuth ==
    \/ AuthGuardedRequest
    \/ BlockTokenCall
    \/ Logout
    \/ CreateAccessTokenCall
    \/ Tick
    \/ TeardownRequest

SpecAuth == Init /\ [][NextAuth]_vars

NextSessions ==
    \/ GoogleTokenLogin
    \/ RefreshToken
    \/ Logout
    \/ SuperAdminUpdateUserRole
    \/ Tick
    \/ TeardownRequest

SpecSessions == Init /\ [][NextSessions]_vars

\* logins, refreshes and requests to a route behind require_auth with any of the
\* tokens handed out
NextCredentials ==
    \/ GoogleTokenLogin
    \/ RefreshToken
    \/ AuthGuardedRequest
    \/ Tick
    \/ TeardownRequest

SpecCredentials == Init /\ [][NextCredentials]_vars

\* logins and refreshes while a super admin deactivates accounts
NextDeactivation ==
    \/ GoogleTokenLogin
    \/ RefreshToken
    \/ SuperAdminDeactivateUser
    \/ Tick
    \/ TeardownRequest

SpecDeactivation == Init /\ [][NextDeactivation]_vars

\* ---------------------------------------------------------------------
\* AuditService.get_login_history and GET /staff/login-history
\* ---------------------------------------------------------------------

\* AuditService.get_login_history(user_id) for g.current_user = user; the page
\* holds every matching row (limit = 20)
get_login_history(user, logs, user_id) ==
    LET Matches(r) ==
            /\ SqlEq(r.user_id, user_id)
            /\ r.action_type \in {"LOGIN", "LOGIN_FAILED", "LOGOUT"}
        history == Reverse(SelectSeq(logs, Matches)) IN
    IF user.role \in {"FACULTY", "STAFF", "STUDENT"} /\ user.user_id # user_id
    THEN LogsError("ACCESS_DENIED")
    ELSE [error |-> None, items |-> history, total |-> Len(history)]

\* @require_auth @require_roles(['FACULTY', 'STAFF', 'STUDENT'])
StaffGuards(user) ==
    LET denied == require_roles(user, {"FACULTY", "STAFF", "STUDENT"}) IN
    IF ~user.present THEN
        [ok |-> FALSE, exc |-> UnauthorizedException("Authentication token is required"),
         ctx |-> NoTenantContext]
    ELSE [ok |-> denied = NoException, exc |-> denied, ctx |-> NoTenantContext]

\* GET /staff/login-history
staff_get_login_history(user) ==
    LET result == get_login_history(user, audit_logs, user.user_id) IN
    AdminServed("staff.get_login_history", user, NoRequest, StaffGuards(user),
                ResultResponse(result, <<>>, 403, 200),
                Returned("get_login_history", <<user.user_id>>, result), users, audit_logs)

\* AuditService().get_login_history(user_id) called with g.current_user = user, by
\* any caller in the application
get_login_history_call(user, user_id) ==
    AdminServed("<service>", user, NoRequest,
                [ok |-> TRUE, exc |-> NoException, ctx |-> NoTenantContext],
                NoResponse,
                Returned("get_login_history", <<user_id>>,
                         get_login_history(user, audit_logs, user_id)),
                users, audit_logs)

\* g.current_user of the callers of get_login_history
HistoryReaders ==
    {TokenOf(u) : u \in DOMAIN SeedUsers}
    \cup {User("user-faculty-1", r, c) : r \in {None, UnknownRole, "STAFF"}, c \in {"c1", None}}
    \cup {NoUser}

StaffGetLoginHistory ==
    /\ Idle
    /\ \E user \in HistoryReaders : staff_get_login_history(user)

GetLoginHistoryCall ==
    /\ Idle
    /\ \E user \in HistoryReaders, user_id \in DOMAIN SeedUsers :
          get_login_history_call(user, user_id)

NextHistory ==
    \/ GoogleTokenLogin
    \/ StaffGetLoginHistory
    \/ GetLoginHistoryCall
    \/ TeardownRequest

SpecHistory == Init /\ [][NextHistory]_vars

\* ---------------------------------------------------------------------
\* The audit trail under a failing database
\* ---------------------------------------------------------------------

\* UserService._log_audit with the database in condition store: whatever
\* AuditService.log raises is swallowed
UserService_log_audit(logs, user, action, entity_type, entity_id, store) ==
    LET r == AuditService_log(logs, user, action, entity_type, entity_id, None, "INFO",
                              None, None, None, store) IN
    Logged(NoException, None, r.audit_logs)

\* CollegeService._log_audit with the database in condition store: it writes the
\* row itself, with the college_id it is given and without an email; the
\* connection is opened before the try block
CollegeService_log_audit(logs, user, college_id, action, entity_type, entity_id, store) ==
    CASE store = "unavailable" ->
            Logged(OperationalError("unable to open database file"), None, logs)
      [] store = "insert_fails" -> Logged(NoException, None, logs)
      [] OTHER ->
            Logged(NoException, None,
                   Append(logs, [college_id |-> college_id,
                                 user_id |-> user.user_id,
                                 user_email |-> None,
                                 user_role |-> user.role,
                                 action_type |-> action,
                                 entity_type |-> entity_type,
                                 entity_id |-> entity_id,
                                 severity |-> "INFO"]))

\* audit writes tried
MaxAuditWrites == 2

\* the principals in whose request a record is written
AuditActors == {NoUser, TokenOf("user-college-admin-1"), TokenOf("user-super-admin")}

AuditActions == {"CREATE", "DELETE"}

\* a call that writes to the audit trail, made for principal actor
AuditCalled(fn, args, actor, r) ==
    /\ AuthServed("<none>", NoRequest, actor, r.raised, NoResponse, FALSE,
                  Returned(fn, args, r.value))
    /\ audit_logs' = r.audit_logs
    /\ UNCHANGED <<users, authvars, procvars>>

AuditLogCall ==
    /\ Idle
    /\ Len(audit_logs) < MaxAuditWrites
    /\ \E actor \in AuditActors, action_type \in AuditActions, store \in StoreConditions :
          AuditCalled("AuditService.log", <<action_type, "user", "u1">>, actor,
                      AuditService_log(audit_logs, actor, action_type, "user", "u1", None,
                                       "INFO", None, None, None, store))

UserServiceLogAuditCall ==
    /\ Idle
    /\ Len(audit_logs) < MaxAuditWrites
    /\ \E actor \in AuditActors, action \in AuditActions, store \in StoreConditions :
          AuditCalled("UserService._log_audit", <<action, "user", "u1">>, actor,
                      UserService_log_audit(audit_logs, actor, action, "user", "u1", store))

CollegeServiceLogAuditCall ==
    /\ Idle
    /\ Len(audit_logs) < MaxAuditWrites
    /\ \E actor \in AuditActors, action \in AuditActions, store \in StoreConditions :
          AuditCalled("CollegeService._log_audit", <<"c1", action, "college", "c1">>, actor,
                      CollegeService_log_audit(audit_logs, actor, "c1", action, "college",
                                               "c1", store))

\* POST /auth/google/token with the database in any condition when the login is logged
GoogleTokenLoginLogged ==
    /\ Idle
    /\ Len(audit_logs) < MaxAuditWrites
    /\ \E google_email \in LoginEmails, store \in StoreConditions :
          google_token("code", google_email, store)

NextAudit ==
    \/ AuditLogCall
    \/ UserServiceLogAuditCall
    \/ CollegeServiceLogAuditCall
    \/ GoogleTokenLoginLogged
    \/ TeardownRequest

SpecAudit == Init /\ [][NextAudit]_vars

\* ---------------------------------------------------------------------
\* record_suspicious_activity, one step per stretch of bytecode that runs without
\* a possible thread switch
\* ---------------------------------------------------------------------

At(w, pc) == workers[w].pc = pc

Goto(w, pc) == [workers EXCEPT ![w].pc = pc]

\* the frame of a step of record_suspicious_activity
OnlySuspiciousIps == UNCHANGED <<ctxvars, schedules, users, authvars, colleges>>

\* a request thread enters record_suspicious_activity(ip, activity_type)
RecordStart ==
    \E w \in Workers, ip \in Origins, activity_type \in ActivityTypes :
        /\ At(w, "idle")
        /\ activity_calls[ip] < MaxCalls
        /\ workers' = [workers EXCEPT ![w] = [IdleWorker EXCEPT !.pc = "check", !.ip = ip, !.activity_type = activity_type]]
        /\ activity_calls' = [activity_calls EXCEPT ![ip] = @ + 1]
        /\ UNCHANGED <<_suspicious_ips, ip_entries, audit_logs>>
        /\ OnlySuspiciousIps

\* if ip not in cls._suspicious_ips
RecordCheck ==
    \E w \in Workers :
        /\ At(w, "check")
        /\ workers' = Goto(w, IF _suspicious_ips[workers[w].ip] = NoEntry THEN "create" ELSE "load_count")
        /\ UNCHANGED <<_suspicious_ips, ip_entries, activity_calls, audit_logs>>
        /\ OnlySuspiciousIps

\* cls._suspicious_ips[ip] = {'count': 0, ...}, after the call of datetime.utcnow()
RecordCreate ==
    \E w \in Workers :
        /\ At(w, "create")
        /\ ip_entries' = Append(ip_entries, NewEntry)
        /\ _suspicious_ips' = [_suspicious_ips EXCEPT ![workers[w].ip] = Len(ip_entries) + 1]
        /\ workers' = Goto(w, "load_count")
        /\ UNCHANGED <<activity_calls, audit_logs>>
        /\ OnlySuspiciousIps

\* cls._suspicious_ips[ip]['count'] += 1: the entry and its count are read
RecordLoadCount ==
    \E w \in Workers :
        LET entry == _suspicious_ips[workers[w].ip] IN
        /\ At(w, "load_count")
        /\ workers' = [workers EXCEPT ![w].pc = "store_count", ![w].entry = entry, ![w].count = ip_entries[entry].count]
        /\ UNCHANGED <<_suspicious_ips, ip_entries, activity_calls, audit_logs>>
        /\ OnlySuspiciousIps

\* ... and the sum is stored in the entry that was read
RecordStoreCount ==
    \E w \in Workers :
        /\ At(w, "store_count")
        /\ ip_entries' = [ip_entries EXCEPT ![workers[w].entry].count = workers[w].count + 1]
        /\ workers' = Goto(w, "load_activities")
        /\ UNCHANGED <<_suspicious_ips, activity_calls, audit_logs>>
        /\ OnlySuspiciousIps

\* cls._suspicious_ips[ip]['activities'].append: the list is looked up before
\* datetime.utcnow() is called for the new item
RecordLoadActivities ==
    \E w \in Workers :
        /\ At(w, "load_activities")
        /\ workers' = [workers EXCEPT ![w].pc = "append", ![w].entry = _suspicious_ips[workers[w].ip]]
        /\ UNCHANGED <<_suspicious_ips, ip_entries, activity_calls, audit_logs>>
        /\ OnlySuspiciousIps

RecordAppend ==
    \E w \in Workers :
        /\ At(w, "append")
        /\ ip_entries' = [ip_entries EXCEPT ![workers[w].entry].activities = Append(@, workers[w].activity_type)]
        /\ workers' = Goto(w, "threshold")
        /\ UNCHANGED <<_suspicious_ips, activity_calls, audit_logs>>
        /\ OnlySuspiciousIps

\* if cls._suspicious_ips[ip]['count'] >= 10: the IP_RATE_LIMITED event is logged
RecordThreshold ==
    \E w \in Workers :
        /\ At(w, "threshold")
        /\ audit_logs' = IF ip_entries[_suspicious_ips[workers[w].ip]].count >= 10
                         THEN _log_security_event(audit_logs, NoUser, TRUE)
                         ELSE audit_logs
        /\ workers' = [workers EXCEPT ![w] = IdleWorker]
        /\ UNCHANGED <<_suspicious_ips, ip_entries, activity_calls>>
        /\ OnlySuspiciousIps

NextActivity ==
    \/ RecordStart
    \/ RecordCheck
    \/ RecordCreate
    \/ RecordLoadCount
    \/ RecordStoreCount
    \/ RecordLoadActivities
    \/ RecordAppend
    \/ RecordThreshold

SpecActivity == Init /\ [][NextActivity]_vars

\* ---------------------------------------------------------------------
\* services/college_service.py: the status of a college, and a tenant-scoped
\* route called with the token of an earlier login
\* ---------------------------------------------------------------------

\* the dict CollegeService.suspend_college returns, with the tables it leaves
CollegeOutcome(error, cols, logs) == [result |-> [error |-> error], colleges |-> cols, audit_logs |-> logs]

\* CollegeService.suspend_college(college_id, reason) with g.current_user = user
suspend_college(user, cols, logs, college_id) ==
    IF user.role # "SUPER_ADMIN" THEN CollegeOutcome("ACCESS_DENIED", cols, logs)
    ELSE IF college_id \notin DOMAIN cols THEN CollegeOutcome("NOT_FOUND", cols, logs)
    ELSE CollegeOutcome(None, [cols EXCEPT ![college_id] = "SUSPENDED"],
                        CollegeService_log_audit(logs, user, college_id, "SUSPEND",
                                                 "college", college_id, "ok").audit_logs)

SuspendStatus == "ACCESS_DENIED" :> 403 @@ "NOT_FOUND" :> 404

\* POST /super-admin/colleges/<college_id>/suspend
super_admin_suspend_college(user, college_id) ==
    LET g == AdminGuards(user)
        out == suspend_college(user, colleges, audit_logs, college_id) IN
    /\ phase' = "responded"
    /\ route' = "super_admin.suspend_college"
    /\ request' = NoRequest
    /\ current_user' = user
    /\ tenant_context' = NoTenantContext
    /\ raised' = g.exc
    /\ response' = IF g.ok THEN ResultResponse(out.result, SuspendStatus, 500, 200)
                   ELSE handle_exception(g.exc)
    /\ wrapped_ran' = g.ok
    /\ base_query' = NotQueried
    /\ svc_calls' = {}
    /\ returned' = IF g.ok THEN Returned("suspend_college", <<college_id>>, out.result)
                   ELSE NoReturn
    /\ colleges' = IF g.ok THEN out.colleges ELSE colleges
    /\ audit_logs' = IF g.ok THEN out.audit_logs ELSE audit_logs
    /\ UNCHANGED <<schedules, users, authvars, _suspicious_ips, ip_entries, workers, activity_calls>>

\* GET /schedules/ with token as Bearer credentials: require_auth builds the
\* principal from the token, then the route runs as for that principal
get_schedules_with_token(token) ==
    LET a == require_auth(AuthRequest(Authorization("Bearer", token), NoToken, NoToken, Absent), now) IN
    IF a.ok THEN get_schedules(a.user, NoRequest)
    ELSE Served("get_schedules", NoUser, NoRequest,
                [ok |-> FALSE, exc |-> a.exc, ctx |-> NoTenantContext], a.exc, 0, {},
                schedules)

\* suspensions tried
MaxSuspensions == 2

SuperAdminSuspendCollege ==
    /\ Idle
    /\ Len(audit_logs) < MaxLogins + MaxSuspensions
    /\ \E user \in SuperAdminCallers, college_id \in {"c1", "c2", "c9"} :
          super_admin_suspend_college(user, college_id)

TenantScopedRequest ==
    /\ Idle
    /\ \E e \in issued : get_schedules_with_token(e.token)

NextColleges ==
    \/ GoogleTokenLogin
    \/ SuperAdminSuspendCollege
    \/ TenantScopedRequest
    \/ Tick
    \/ TeardownRequest

SpecColleges == Init /\ [][NextColleges]_vars

\* ---------------------------------------------------------------------
\* Tenant middleware: properties
\* ---------------------------------------------------------------------

TenantGuardedRoutes == {"tenant_guarded_view", "guarded_query_view"}

NonSuperAdmin == current_user.present /\ current_user.role # "SUPER_ADMIN"

\* the served request addressed a college other than the caller's own
CrossTenantCase ==
    /\ phase = "responded"
    /\ route \in TenantGuardedRoutes
    /\ NonSuperAdmin
    /\ Truthy(current_user.college_id)
    /\ Truthy(_get_requested_college_id(request))
    /\ _get_requested_college_id(request) # current_user.college_id

\* C1: a non-super-admin principal with a tenant of its own that addresses another,
\* non-empty tenant is refused by require_tenant_access with the cross-tenant
\* denial (403 TENANT_ACCESS_DENIED); no tenant context is set and the wrapped
\* operation does not run.
C1_CrossTenantDenied ==
    CrossTenantCase =>
        /\ raised = TenantAccessException(TenantAccessDefaultMessage)
        /\ response.status = 403
        /\ response.code = "TENANT_ACCESS_DENIED"
        /\ ~tenant_context.present
        /\ ~wrapped_ran
        /\ ~base_query.ran

\* a cross-tenant request whose foreign college comes from the JSON body alone
C1_Witness ==
    /\ CrossTenantCase
    /\ request.header = None /\ request.path = Absent /\ request.query = None
    /\ request.body = "c2"
    /\ current_user.college_id = "c1"
    /\ response.status = 403

\* C4: a TenantIsolatedQuery on a tenant-scoped model always carries the predicate
\* college_id = effective tenant, except in a super-admin context with no requested
\* tenant; for a non-super-admin caller, or with no tenant context at all, the
\* query never runs without the predicate.
C4_QueryAlwaysTenantScoped ==
    (base_query.ran /\ base_query.tenant_scoped) =>
        IF base_query.tenant_filter = NoFilter
        THEN /\ tenant_context.present
             /\ tenant_context.is_super_admin
             /\ ~Truthy(tenant_context.college_id)
        ELSE base_query.tenant_filter = get_tenant_college_id(tenant_context, current_user)

\* the tenant-less account case: a non-super-admin principal without a college
NoTenantCase ==
    /\ phase = "responded"
    /\ route \in TenantGuardedRoutes
    /\ NonSuperAdmin
    /\ ~Truthy(current_user.college_id)

\* the reason code a client receives for a cross-tenant denial
CrossTenantDenialCode ==
    handle_exception(TenantAccessException(TenantAccessDefaultMessage)).code

\* C7: a non-super-admin principal without a tenant is refused by
\* require_tenant_access whatever tenant it requests, with a reason code that
\* differs from the one of a cross-tenant denial.
C7_NoTenantReasonDistinct ==
    NoTenantCase =>
        /\ ~wrapped_ran
        /\ response.status = 403
        /\ raised.code # TenantAccessException(TenantAccessDefaultMessage).code
        /\ response.code # CrossTenantDenialCode


\* ---------------------------------------------------------------------
\* Schedule routes: properties
\* ---------------------------------------------------------------------

ScheduleRoutes ==
    {"get_schedules", "get_schedule", "create_schedule", "update_schedule",
     "delete_schedule", "import_schedules", "get_room_availability",
     "get_faculty_availability"}

MutatingRoutes ==
    {"create_schedule", "update_schedule", "delete_schedule", "import_schedules"}

\* C2: in a schedule route behind require_tenant_access, every college_id a
\* non-super-admin request hands to ScheduleService is the principal's own tenant,
\* whatever tenant hints the request carries; so is the tenant of its context.
C2_EffectiveTenantIsOwn ==
    (phase = "responded" /\ route \in ScheduleRoutes /\ NonSuperAdmin) =>
        /\ \A c \in svc_calls : c.college_id = current_user.college_id
        /\ tenant_context.present => tenant_context.college_id = current_user.college_id

\* a college admin of c1 whose request names c1 in the header and c2 in the body
\* creates the schedule in c1
C2_Witness ==
    /\ phase = "responded"
    /\ route = "create_schedule"
    /\ NonSuperAdmin
    /\ current_user.college_id = "c1"
    /\ request.header = "c1"
    /\ request.body = "c2"
    /\ Call("create_schedule", "c1") \in svc_calls
    /\ response.status = 201

\* C5: no mutating schedule operation executes for a request whose tenant context
\* has can_write = FALSE: the request does not succeed and no ScheduleService
\* write is called (a SUPER_ADMIN POST /schedules/ addressed to a tenant is refused).
C5_ReadOnlyContextNeverWrites ==
    (/\ phase = "responded"
     /\ route \in MutatingRoutes
     /\ tenant_context.present
     /\ ~tenant_context.can_write) =>
        /\ \A c \in svc_calls : c.op \notin MutatingOps
        /\ response.status \notin {200, 201}

\* ---------------------------------------------------------------------
\* RBAC middleware: properties
\* ---------------------------------------------------------------------

\* C8: has_permission('SUPER_ADMIN', resource, action) is true for every resource
\* and action name, in the table or not, and a view behind
\* require_permission(resource, action) runs for every SUPER_ADMIN principal.
C8_SuperAdminBypassesPermissions ==
    /\ (returned.fn = "has_permission" /\ returned.args[1] = "SUPER_ADMIN")
          => returned.value = TRUE
    /\ (route = "permission_guarded_view" /\ current_user.role = "SUPER_ADMIN")
          => (wrapped_ran /\ raised = NoException)

\* actor strictly outranks role, by the levels rbac_middleware consults
\* (ROLE_HIERARCHY, 0 for a role it does not list)
StrictlyOutranks(actor, role) == RoleLevel(actor) > RoleLevel(role)

RoleChangeDecided(actor, current, new) ==
    /\ returned.fn = "validate_role_change"
    /\ returned.args = <<actor, current, new>>

C3_AuditRecordsOnlyToEntitledCallers ==
    returned.fn = "get_logs" =>
        LET items == returned.value.items IN
        /\ \A i \in DOMAIN items :
              \/ current_user.role = "SUPER_ADMIN"
              \/ /\ current_user.role = "COLLEGE_ADMIN"
                 /\ items[i].college_id = current_user.college_id
        /\ current_user.role \notin AdminRoles => items = <<>>

\* a UserService operation has just run for a COLLEGE_ADMIN principal
CollegeAdminRan(ops) ==
    /\ phase' = "responded"
    /\ current_user'.role = "COLLEGE_ADMIN"
    /\ returned'.fn \in ops

\* C6: no create_user (re-activation included), update_user_role or
\* deactivate_user of a COLLEGE_ADMIN principal changes the college_id of a user
\* that existed before it; only SUPER_ADMIN reassigns tenants.
C6_CollegeAdminNeverReassignsTenant ==
    [][CollegeAdminRan({"create_user", "update_user_role", "deactivate_user"})
          => \A u \in DOMAIN users : users'[u].college_id = users[u].college_id]_vars

\* C10: after a create_user or update_user_role of a COLLEGE_ADMIN principal,
\* every user holding COLLEGE_ADMIN or SUPER_ADMIN held that role before it.
C10_CollegeAdminNeverGrantsAdminRole ==
    [][CollegeAdminRan({"create_user", "update_user_role"})
          => \A u \in DOMAIN users' :
                users'[u].role_code \in AdminRoles
                   => (u \in DOMAIN users /\ users[u].role_code = users'[u].role_code)]_vars

\* a COLLEGE_ADMIN created a user below its level and was then refused when it
\* asked to promote that user to COLLEGE_ADMIN
C10_Witness ==
    /\ phase = "responded"
    /\ current_user.role = "COLLEGE_ADMIN"
    /\ returned.fn = "update_user_role"
    /\ returned.args = <<"user-new-1", "COLLEGE_ADMIN", None>>
    /\ returned.value.error = "ROLE_ESCALATION"
    /\ "user-new-1" \in DOMAIN users
    /\ users["user-new-1"].role_code = "STAFF"
    /\ users["user-new-1"].college_id = current_user.college_id

\* the reason code a client receives when its role is not allowed
InsufficientRoleCode ==
    handle_exception(ForbiddenException("Access denied. Required role")).code

\* C11: a view behind require_roles(allowed) runs exactly when the principal's
\* role is SUPER_ADMIN or in the allowed list; a principal of another role gets
\* 403 with the insufficient-role reason, a request without principal is refused
\* with a reason code of its own, and in both cases the view does not run.
C11_RequireRolesDecision ==
    route = "roles_guarded_view" =>
        LET allowed == returned.args[1]
            passes == /\ current_user.present
                      /\ \/ current_user.role = "SUPER_ADMIN"
                         \/ current_user.role \in allowed IN
        /\ wrapped_ran <=> passes
        /\ (current_user.present /\ ~passes) =>
              (response.status = 403 /\ response.code = InsufficientRoleCode)
        /\ ~current_user.present =>
              (response.status \in {401, 403} /\ response.code # InsufficientRoleCode)

\* the role ranks the role table is to have
ClaimedRank(role) ==
    CASE role = "SUPER_ADMIN" -> 100
      [] role = "COLLEGE_ADMIN" -> 50
      [] role = "FACULTY" -> 10
      [] role = "STAFF" -> 5
      [] role = "STUDENT" -> 1
      [] OTHER -> 0

\* C12: can_manage_role(A, B) is true exactly when rank(A) > rank(B), and
\* has_higher_or_equal_role(A, B) exactly when rank(A) >= rank(B), for the ranks
\* SUPER_ADMIN 100, COLLEGE_ADMIN 50, FACULTY 10, STAFF 5, STUDENT 1 and 0 for
\* any other role; STAFF manages STUDENT, STUDENT does not manage STAFF and no
\* role manages itself.
C12_RoleRanks ==
    /\ returned.fn = "can_manage_role" =>
          /\ returned.value = (ClaimedRank(returned.args[1]) > ClaimedRank(returned.args[2]))
          /\ returned.args = <<"STAFF", "STUDENT">> => returned.value = TRUE
          /\ returned.args = <<"STUDENT", "STAFF">> => returned.value = FALSE
          /\ returned.args[1] = returned.args[2] => returned.value = FALSE
    /\ returned.fn = "has_higher_or_equal_role" =>
          returned.value = (ClaimedRank(returned.args[1]) >= ClaimedRank(returned.args[2]))

\* ---------------------------------------------------------------------
\* Tokens and sessions: properties
\* ---------------------------------------------------------------------

\* a request was served by the view behind require_auth
AuthGuardedStep == phase = "idle" /\ phase' = "responded" /\ route' = "auth_guarded_view"

\* the message SecurityMiddleware gives for a blocked token
RevokedMessage == "This token has been revoked"

\* C13: once block_token(c) has been called, require_auth rejects every later
\* authentication of c with the revoked reason; the revoked set never loses a
\* fingerprint and the clock never goes back, so no revoked or expired credential
\* returns to the accepted state
C13_BlockedCredentialStaysRejected ==
    [][/\ _blocked_tokens \subseteq _blocked_tokens'
       /\ now' >= now
       /\ (AuthGuardedStep /\ is_token_blocked(_blocked_tokens', _extract_token(request')))
            => /\ ~wrapped_ran'
               /\ ~current_user'.present
               /\ response'.status = 401
               /\ response'.message = RevokedMessage]_vars

\* POST /auth/logout was served
LogoutStep == phase = "idle" /\ phase' = "responded" /\ route' = "auth.logout"

\* C14: after POST /auth/logout with a bearer credential c the fingerprint of c is
\* in the revoked-credential set, and a request that presents a credential whose
\* fingerprint is in the set is rejected
C14_LogoutRevokesCredential ==
    [][/\ (/\ LogoutStep
           /\ request'.authorization.parts = 2
           /\ request'.authorization.scheme = "Bearer")
            => is_token_blocked(_blocked_tokens', request'.authorization.credentials)
       /\ (AuthGuardedStep /\ is_token_blocked(_blocked_tokens', _extract_token(request')))
            => (~wrapped_ran' /\ ~current_user'.present /\ response'.status = 401)]_vars

\* the outcome the five failure reasons assign to a request at time t: no
\* credential, a revoked one, one of the wrong shape, one with a bad signature, one
\* without a required claim, an expired one
ClaimedOutcome(req, blocked, t) ==
    LET token == _extract_token(req) IN
    CASE token = NoToken -> "MISSING"
      [] is_token_blocked(blocked, token) -> "REVOKED"
      [] token.shape # "jwt" -> "MALFORMED"
      [] token.key # JWT_SECRET_KEY -> "SIGNATURE_INVALID"
      [] \E claim \in {"sub", "iat", "exp"} : ClaimMissing(token.payload, claim) -> "MALFORMED"
      [] token.payload.exp <= t -> "EXPIRED"
      [] OTHER -> "PRINCIPAL"

\* the code a client receives for a credential of each kind require_auth tells apart
SurfacedCode(token) ==
    handle_exception(require_auth(AuthRequest(Authorization("Bearer", token), NoToken,
                                              NoToken, Absent), MaxTime).exc).code

ExpiredToken == jwt_encode(Payload("u1", "a@b.com", "c1", "FACULTY", Absent, 0, 0), JWT_SECRET_KEY)

BadSignatureToken == jwt_encode(Payload("u1", "a@b.com", "c1", "FACULTY", Absent, 0, NeverExpires), "attacker-key")

ReasonCode ==
    "MISSING" :> SurfacedCode(NoToken) @@ "MALFORMED" :> SurfacedCode(GarbageToken)
    @@ "EXPIRED" :> SurfacedCode(ExpiredToken)
    @@ "SIGNATURE_INVALID" :> SurfacedCode(BadSignatureToken)

\* C15: require_auth ends in a principal or in one of the failure reasons MISSING,
\* MALFORMED, EXPIRED, SIGNATURE_INVALID, REVOKED; every failure is a 401 whose
\* reason is not the reason of another kind of failure, the wrapped operation does
\* not run and no principal is set
C15_AuthenticationOutcomes ==
    route = "auth_guarded_view" =>
        LET reason == ClaimedOutcome(request, _blocked_tokens, now) IN
        /\ reason = "PRINCIPAL" <=> (current_user.present /\ wrapped_ran)
        /\ reason # "PRINCIPAL" =>
            /\ response.status = 401
            /\ ~wrapped_ran
            /\ ~current_user.present
            /\ \A other \in DOMAIN ReasonCode \ {reason} : response.code # ReasonCode[other]

\* the tenant of a principal or of user data, None when it has none: a missing
\* key, None and the empty string all mean no tenant
TenantOf(college_id) == IF Truthy(Get(college_id)) THEN college_id ELSE None

\* the entries of issued whose access token the request presents before it expires
PresentedAccessTokens ==
    {e \in issued : /\ request.authorization = Authorization("Bearer", e.token)
                    /\ e.token.payload.type # "refresh"
                    /\ now < e.token.payload.exp}

\* C16: authenticating the access token issued for a principal, at any time before
\* its expiry, yields a principal with the same subject, role and tenant, the
\* tenant possibly absent
C16_TokenRoundTrip ==
    route = "auth_guarded_view" =>
        \A e \in PresentedAccessTokens :
            /\ current_user.present
            /\ current_user.user_id = e.for.user_id
            /\ current_user.role = e.for.role
            /\ TenantOf(current_user.college_id) = TenantOf(e.for.college_id)

\* POST /auth/refresh answered with a new access token
Refreshed == route = "auth.refresh" /\ response.status = 200

\* the user data in force when the refresh token of the request was issued
IssuedFor(token) == {e.for : e \in {i \in issued : i.token = token}}

\* C17: a refresh token carries only sub, type = refresh, iat and exp, and the
\* access token of a refresh has the role and the tenant of the user's current
\* stored record
C17_RefreshUsesStoredRecord ==
    /\ \A e \in issued :
          e.token.payload.type = "refresh" =>
              /\ e.token.payload.role = Absent
              /\ e.token.payload.college_id = Absent
              /\ e.token.payload.email = Absent
              /\ e.token.payload.sub = e.for.user_id
              /\ e.token.payload.iat # NoTime
              /\ e.token.payload.exp # NoTime
    /\ Refreshed =>
          LET access == returned.value.payload
              record == users[request.json.payload.sub] IN
          /\ access.sub = request.json.payload.sub
          /\ access.role = record.role_code
          /\ TenantOf(access.college_id) = TenantOf(record.college_id)

\* a refresh after update_user_role gave the user another role and college than
\* the refresh token was issued under
C17_Witness ==
    /\ Refreshed
    /\ \E old \in IssuedFor(request.json) :
          /\ old.role # users[old.user_id].role_code
          /\ old.college_id # users[old.user_id].college_id
          /\ returned.value.payload.role = users[old.user_id].role_code
          /\ returned.value.payload.college_id = users[old.user_id].college_id

\* block_token was called
BlockTokenStep == phase = "idle" /\ phase' = "responded" /\ returned'.fn = "block_token"

\* C18: block_token(c) leaves c blocked and changes is_token_blocked of no other
\* credential; called again for a credential that is already blocked it changes
\* nothing: the revoked set is the same and nothing has grown
C18_BlockTokenIdempotent ==
    [][BlockTokenStep =>
          LET c == returned'.args[1] IN
          /\ is_token_blocked(_blocked_tokens', c)
          /\ \A other \in PresentableTokens \ {c} :
                is_token_blocked(_blocked_tokens', other)
                    <=> is_token_blocked(_blocked_tokens, other)
          /\ is_token_blocked(_blocked_tokens, c) =>
                /\ _blocked_tokens' = _blocked_tokens
                /\ Len(audit_logs') = Len(audit_logs)
                /\ refresh_tokens' = refresh_tokens]_vars

\* ---------------------------------------------------------------------
\* Audit trail: properties
\* ---------------------------------------------------------------------

AuditLogStep == phase = "idle" /\ phase' = "responded" /\ returned'.fn = "AuditService.log"

LoginStep == phase = "idle" /\ phase' = "responded" /\ returned'.fn = "process_google_callback"

\* the login served by the step, as it ends when its audit record can be written
NormalLogin == process_google_callback(users, colleges, refresh_tokens, audit_logs, returned'.args[1], now, AccessLifetime, RefreshLifetime, "ok")

\* C19: AuditService.log never raises to its caller: it either writes one record
\* and returns True or leaves the audit log unchanged and returns False; and a
\* login, which triggers it, ends with its normal result whatever becomes of the
\* audit write
C19_AuditFailureIsContained ==
    [][/\ AuditLogStep =>
             /\ raised' = NoException
             /\ \/ returned'.value = TRUE /\ Len(audit_logs') = Len(audit_logs) + 1
                \/ returned'.value = FALSE /\ audit_logs' = audit_logs
       /\ LoginStep =>
             /\ raised' = NormalLogin.exc
             /\ returned'.value = NormalLogin.access_token
             /\ users' = NormalLogin.users
             /\ refresh_tokens' = NormalLogin.refresh_tokens
             /\ audit_logs' \in {audit_logs, NormalLogin.audit_logs}]_vars

\* s is an initial part of t
IsPrefix(s, t) == Len(s) <= Len(t) /\ SubSeq(t, 1, Len(s)) = s

\* C20: audit records are write-once: every step leaves each record of table
\* audit_logs in place with all its fields as written, the role and email of the
\* actor included; no step removes a record
C20_AuditRecordsWriteOnce == [][IsPrefix(audit_logs, audit_logs')]_vars

\* a record whose actor has since lost the role it was written with or was deactivated
C20_Witness ==
    \E i \in DOMAIN audit_logs :
        LET r == audit_logs[i] IN
        /\ r.user_id \in DOMAIN users
        /\ r.user_role # None
        /\ r.user_email = SeedUsers[r.user_id].email
        /\ \/ users[r.user_id].role_code # r.user_role
           \/ users[r.user_id].status # "ACTIVE"

\* require_tenant_access refused the request of the step as a cross-tenant attempt
CrossTenantDenialStep == phase = "idle" /\ phase' = "responded" /\ route' \in TenantGuardedRoutes /\ raised' = TenantAccessException(TenantAccessDefaultMessage)

\* C21: every cross-tenant denial by require_tenant_access appends one audit
\* record, of action type CROSS_TENANT_VIOLATION and severity WARNING
C21_CrossTenantDenialAudited ==
    [][CrossTenantDenialStep =>
          /\ Len(audit_logs') = Len(audit_logs) + 1
          /\ SubSeq(audit_logs', 1, Len(audit_logs)) = audit_logs
          /\ audit_logs'[Len(audit_logs')].action_type = "CROSS_TENANT_VIOLATION"
          /\ audit_logs'[Len(audit_logs')].severity = "WARNING"]_vars

\* POST /auth/google/token with an authorization code was served
GoogleTokenStep == phase = "idle" /\ phase' = "responded" /\ route' = "auth.google_token" /\ request'.code # Absent

\* the step appended exactly one record, of the given action type and severity,
\* that carries a subject id and an email
AppendedSessionRecord(action_type, severity) ==
    /\ Len(audit_logs') = Len(audit_logs) + 1
    /\ SubSeq(audit_logs', 1, Len(audit_logs)) = audit_logs
    /\ audit_logs'[Len(audit_logs')].action_type = action_type
    /\ audit_logs'[Len(audit_logs')].severity = severity
    /\ audit_logs'[Len(audit_logs')].user_id # None
    /\ audit_logs'[Len(audit_logs')].user_email # None

\* C22: a successful login appends one LOGIN record of severity INFO, a failed
\* login one LOGIN_FAILED record of severity WARNING and a logout one LOGOUT
\* record of severity INFO, each with the subject id and email
C22_SessionEventsAudited ==
    [][/\ (GoogleTokenStep /\ response'.status = 200) => AppendedSessionRecord("LOGIN", "INFO")
       /\ (GoogleTokenStep /\ response'.status # 200) =>
             AppendedSessionRecord("LOGIN_FAILED", "WARNING")
       /\ LogoutStep => AppendedSessionRecord("LOGOUT", "INFO")]_vars

\* a mutating schedule route answered with success
ScheduleMutatedStep == phase = "idle" /\ phase' = "responded" /\ route' \in MutatingRoutes /\ response'.status \in {200, 201}

\* C23: every successful mutating operation appends an audit record describing
\* it; for POST /schedules/ the record has action type CREATE and entity type
\* schedule
C23_MutationsAudited ==
    [][ScheduleMutatedStep =>
          /\ Len(audit_logs') = Len(audit_logs) + 1
          /\ SubSeq(audit_logs', 1, Len(audit_logs)) = audit_logs
          /\ route' = "create_schedule" =>
                /\ audit_logs'[Len(audit_logs')].action_type = "CREATE"
                /\ audit_logs'[Len(audit_logs')].entity_type = "schedule"]_vars

\* ---------------------------------------------------------------------
\* Suspicious-activity counters: properties
\* ---------------------------------------------------------------------

\* every call of record_suspicious_activity made so far has returned
AllCallsFinished == \A w \in Workers : workers[w].pc = "idle"

\* C24: when all concurrent record_suspicious_activity calls for an origin have
\* finished, the origin's count is the number of calls and its activity list has
\* one item per call
C24_NoLostUpdate ==
    AllCallsFinished =>
        \A ip \in Origins :
            activity_calls[ip] > 0 =>
                /\ _suspicious_ips[ip] # NoEntry
                /\ ip_entries[_suspicious_ips[ip]].count = activity_calls[ip]
                /\ Len(ip_entries[_suspicious_ips[ip]].activities) = activity_calls[ip]

\* ---------------------------------------------------------------------
\* College status: properties
\* ---------------------------------------------------------------------

\* a tenant-scoped route was called by a principal of a college whose current
\* status is not APPROVED
UnapprovedCollegeCase ==
    /\ phase = "responded"
    /\ route \in ScheduleRoutes
    /\ current_user.present
    /\ current_user.college_id \in DOMAIN colleges
    /\ colleges[current_user.college_id] # "APPROVED"

\* C25: a request to a tenant-scoped route by a principal whose college is not
\* APPROVED at the time of the request is refused with 403 COLLEGE_NOT_APPROVED,
\* whenever its access token was issued
C25_UnapprovedCollegeRefused ==
    UnapprovedCollegeCase =>
        /\ response.status = 403
        /\ response.code = "COLLEGE_NOT_APPROVED"
        /\ ~wrapped_ran

RoleChangeValidators == {"validate_role_change", "security_middleware.validate_role_change"}

\* C26: rbac_middleware.validate_role_change and
\* security_middleware.validate_role_change allow and deny the same triples of
\* actor role, current role of the target and new role
C26_ValidatorsAgree ==
    returned.fn \in RoleChangeValidators =>
        LET a == returned.args IN
        (validate_role_change(a[1], a[2], a[3]) = NoException)
            <=> (security_validate_role_change(a[1], a[2], a[3]) = NoException)

\* C27: require_auth rejects every token whose type is refresh, so no view runs
\* with a principal built from a refresh token; and refresh_access_token rejects
\* every token whose type is not refresh and issues nothing for it
C27_TokenTypesKeptApart ==
    /\ (route = "auth_guarded_view" /\ _extract_token(request).payload.type = "refresh") =>
          /\ ~wrapped_ran
          /\ ~current_user.present
          /\ response.status = 401
    /\ (route = "auth.refresh" /\ request.json # NoToken /\ request.json.payload.type # "refresh") =>
          /\ response.status # 200
          /\ returned.value = NoToken

\* the accounts that are deactivated, suspended or soft-deleted
Deactivated ==
    {u \in DOMAIN users : users[u].status \in {"INACTIVE", "SUSPENDED"} \/ users[u].is_deleted}

\* a login with the email of a deactivated account was processed
DeactivatedLoginCase ==
    /\ returned.fn = "process_google_callback"
    /\ returned.args[1] # Absent
    /\ UsersByEmail(users, NormalizeEmail(returned.args[1])) \cap Deactivated # {}

\* a refresh token whose subject is a deactivated account was presented
DeactivatedRefreshCase ==
    /\ returned.fn = "refresh_access_token"
    /\ returned.args[1].payload.sub \in Deactivated

\* C28: while a user is INACTIVE, SUSPENDED or soft-deleted no access token is
\* issued for them: a login is refused, and so is refresh_access_token with a
\* refresh token issued before the deactivation
C28_NoTokenForDeactivatedUser ==
    /\ DeactivatedLoginCase => (returned.value = NoToken /\ response.status # 200)
    /\ DeactivatedRefreshCase => (returned.value = NoToken /\ response.status # 200)

\* POST /college-admin/users/<user_id>/deactivate reached UserService.deactivate_user
\* with a COLLEGE_ADMIN principal
CollegeAdminDeactivateStep ==
    /\ phase = "idle"
    /\ route' = "college_admin.deactivate_user"
    /\ returned'.fn = "deactivate_user"
    /\ current_user'.role = "COLLEGE_ADMIN"

\* C29: a COLLEGE_ADMIN deactivates only users of its own college whose role it
\* strictly outranks, never another COLLEGE_ADMIN or a SUPER_ADMIN, and a
\* refused call leaves the target's status unchanged
C29_DeactivateRespectsHierarchy ==
    [][CollegeAdminDeactivateStep =>
          LET user_id == returned'.args[1] IN
          IF returned'.value.error = None
          THEN /\ user_id \in DOMAIN users
               /\ users[user_id].college_id = current_user'.college_id
               /\ ClaimedRank("COLLEGE_ADMIN") > ClaimedRank(users[user_id].role_code)
               /\ users[user_id].role_code \notin {"COLLEGE_ADMIN", "SUPER_ADMIN"}
               /\ users'[user_id].status = "INACTIVE"
          ELSE users' = users]_vars

\* get_login_history returned a non-empty history
HistoryRead ==
    /\ returned.fn = "get_login_history"
    /\ returned.value.error = None
    /\ returned.value.total > 0

\* C30: get_login_history returns the login history of user u only to u, to a
\* SUPER_ADMIN, or to a COLLEGE_ADMIN of the college u belongs to
C30_LoginHistoryReaders ==
    HistoryRead =>
        LET u == returned.args[1] IN
        \/ current_user.user_id = u
        \/ current_user.role = "SUPER_ADMIN"
        \/ /\ current_user.role = "COLLEGE_ADMIN"
           /\ u \in DOMAIN users
           /\ SqlEq(users[u].college_id, current_user.college_id)

=============================================================================
